---------------------------- MODULE Spec2Model ----------------------------
(***************************************************************************)
(* Model of the portfolio chat assistant: the POST /api/chat handler       *)
(* (src/app/api/chat/route.ts), the model gateway (src/lib/chat-client.ts),*)
(* the tool registry (src/lib/mcp-tools.ts) and the rate limiter           *)
(* (src/lib/rate-limit.ts).                                                *)
(*                                                                         *)
(* Text is modelled as a sequence of characters.  A character is a TLA+    *)
(* string: the JSON punctuation, the whitespace characters " " and "\n",   *)
(* the two markers "TOOL_CALL:" and "FINAL:" (each one character of the    *)
(* model, since the code only ever looks for them as a whole), and words   *)
(* (identifiers such as "get_contact", one character each).                *)
(***************************************************************************)
EXTENDS Integers, Sequences, FiniteSets, Bags, TLC

(***************************************************************************)
(* Characters and strings                                                  *)
(***************************************************************************)
QUOTE == "\""

BACKSLASH == "\\"

\* Whitespace as JSON.parse, String.prototype.trim and the regex \s see it.
IsWs(c) == c \in {" ", "\n"}

Digits == {"0", "1", "2", "3", "4", "5", "6", "7", "8", "9"}

RECURSIVE SkipWs(_, _)
\* Index of the first non-whitespace character of s at or after i (Len(s)+1 if none).
SkipWs(s, i) ==
  IF i <= Len(s) /\ IsWs(s[i]) THEN SkipWs(s, i + 1) ELSE i

RECURSIVE SkipDigits(_, _)
SkipDigits(s, i) ==
  IF i <= Len(s) /\ s[i] \in Digits THEN SkipDigits(s, i + 1) ELSE i

RECURSIVE Concat(_)
\* Concatenation of a sequence of strings (template literals, Array.join("")).
Concat(ss) == IF ss = <<>> THEN <<>> ELSE Head(ss) \o Concat(Tail(ss))

\* String.prototype.indexOf(c, from) for a one-character needle, 1-based; 0 if absent.
IndexOf(s, c, from) ==
  IF \E i \in from..Len(s) : s[i] = c
  THEN CHOOSE i \in from..Len(s) : s[i] = c /\ \A j \in from..(i - 1) : s[j] # c
  ELSE 0

RECURSIVE TrimEnd(_)
TrimEnd(s) ==
  IF s # <<>> /\ IsWs(s[Len(s)]) THEN TrimEnd(SubSeq(s, 1, Len(s) - 1)) ELSE s

\* String.prototype.trim
Trim(s) == LET t == TrimEnd(s) IN SubSeq(t, SkipWs(t, 1), Len(t))

(***************************************************************************)
(* JSON values.  A value is a record [t, v]: t is the JSON type, v the     *)
(* payload (a string, a sequence of values, a sequence of members [k, v]). *)
(* Undefined is a value of JavaScript, not of JSON: JSON.stringify leaves  *)
(* out the members that hold it.                                           *)
(***************************************************************************)
JNull == [t |-> "null", v |-> <<>>]

JUndef == [t |-> "undef", v |-> <<>>]

JBool(b) == [t |-> "bool", v |-> IF b THEN <<"true">> ELSE <<"false">>]

JNum(ds) == [t |-> "num", v |-> ds]

JStr(s) == [t |-> "str", v |-> s]

JArr(vs) == [t |-> "arr", v |-> vs]

JObj(ms) == [t |-> "obj", v |-> ms]

\* One member of an object literal.
M(k, val) == [k |-> <<k>>, v |-> val]

HasKey(o, k) == o.t = "obj" /\ \E i \in 1..Len(o.v) : o.v[i].k = k

\* Property access o.k (o?.k): undefined when o is no object or has no such key.
Get(o, k) ==
  IF HasKey(o, <<k>>)
  THEN o.v[CHOOSE i \in 1..Len(o.v) : o.v[i].k = <<k>>].v
  ELSE JUndef

\* Assignment o[k] = val as JSON.parse does it: a repeated key keeps its
\* first position and takes the last value.
Put(ms, k, val) ==
  IF \E i \in 1..Len(ms) : ms[i].k = k
  THEN [i \in 1..Len(ms) |-> IF ms[i].k = k THEN [k |-> k, v |-> val] ELSE ms[i]]
  ELSE Append(ms, [k |-> k, v |-> val])

\* a === b for a string b: objects and arrays are never equal to it.
StrictEq(a, b) == a.t = b.t /\ a.t \in {"str", "num", "bool", "null", "undef"} /\ a.v = b.v

\* JavaScript truthiness of a value.
Truthy(x) ==
  CASE x.t \in {"null", "undef"} -> FALSE
    [] x.t = "bool" -> x.v = <<"true">>
    [] x.t = "num" -> x.v # <<"0">>
    [] x.t = "str" -> x.v # <<>>
    [] OTHER -> TRUE

Fail == [ok |-> FALSE, val |-> JNull, next |-> 0]

Ok(val, next) == [ok |-> TRUE, val |-> val, next |-> next]

RECURSIVE ParseStr(_, _, _)
\* The body of a string literal from position i (after the opening quote).
ParseStr(s, i, acc) ==
  IF i > Len(s) THEN Fail
  ELSE IF s[i] = QUOTE THEN Ok(JStr(acc), i + 1)
  ELSE IF s[i] = "\n" THEN Fail
  ELSE IF s[i] = BACKSLASH
       THEN IF i + 1 <= Len(s) /\ s[i + 1] \in {QUOTE, BACKSLASH}
            THEN ParseStr(s, i + 2, Append(acc, s[i + 1]))
            ELSE Fail
  ELSE ParseStr(s, i + 1, Append(acc, s[i]))

RECURSIVE ParseValue(_, _)
RECURSIVE ParseMembers(_, _, _)
RECURSIVE ParseElements(_, _, _)
\* One JSON value starting at or after position i.
ParseValue(s, i) ==
  LET j == SkipWs(s, i) IN
  IF j > Len(s) THEN Fail
  ELSE IF s[j] = QUOTE THEN ParseStr(s, j + 1, <<>>)
  ELSE IF s[j] = "null" THEN Ok(JNull, j + 1)
  ELSE IF s[j] \in {"true", "false"} THEN Ok(JBool(s[j] = "true"), j + 1)
  ELSE IF s[j] \in Digits
       THEN LET e == SkipDigits(s, j) IN Ok(JNum(SubSeq(s, j, e - 1)), e)
  ELSE IF s[j] = "{"
       THEN LET k == SkipWs(s, j + 1) IN
            IF k <= Len(s) /\ s[k] = "}" THEN Ok(JObj(<<>>), k + 1)
            ELSE ParseMembers(s, k, <<>>)
  ELSE IF s[j] = "["
       THEN LET k == SkipWs(s, j + 1) IN
            IF k <= Len(s) /\ s[k] = "]" THEN Ok(JArr(<<>>), k + 1)
            ELSE ParseElements(s, k, <<>>)
  ELSE Fail

\* The members of an object; a member must begin at position i.
ParseMembers(s, i, acc) ==
  IF i > Len(s) \/ s[i] # QUOTE THEN Fail
  ELSE LET key == ParseStr(s, i + 1, <<>>) IN
       IF ~key.ok THEN Fail
       ELSE LET c == SkipWs(s, key.next) IN
            IF c > Len(s) \/ s[c] # ":" THEN Fail
            ELSE LET val == ParseValue(s, c + 1) IN
                 IF ~val.ok THEN Fail
                 ELSE LET d == SkipWs(s, val.next)
                          ms == Put(acc, key.val.v, val.val) IN
                      IF d > Len(s) THEN Fail
                      ELSE IF s[d] = "}" THEN Ok(JObj(ms), d + 1)
                      ELSE IF s[d] = "," THEN ParseMembers(s, SkipWs(s, d + 1), ms)
                      ELSE Fail

\* The elements of an array; an element must begin at position i.
ParseElements(s, i, acc) ==
  LET val == ParseValue(s, i) IN
  IF ~val.ok THEN Fail
  ELSE LET d == SkipWs(s, val.next)
           es == Append(acc, val.val) IN
       IF d > Len(s) THEN Fail
       ELSE IF s[d] = "]" THEN Ok(JArr(es), d + 1)
       ELSE IF s[d] = "," THEN ParseElements(s, d + 1, es)
       ELSE Fail

\* JSON.parse: ok = FALSE stands for the SyntaxError it throws.
JSONParse(s) ==
  LET r == ParseValue(s, 1) IN
  IF r.ok /\ SkipWs(s, r.next) > Len(s) THEN r ELSE Fail

RECURSIVE EscapeStr(_)
EscapeStr(s) ==
  IF s = <<>> THEN <<>>
  ELSE (IF Head(s) \in {QUOTE, BACKSLASH} THEN <<BACKSLASH, Head(s)>> ELSE <<Head(s)>>)
       \o EscapeStr(Tail(s))

RECURSIVE Stringify(_, _)
RECURSIVE StringifyMembers(_, _, _)
RECURSIVE StringifyElements(_, _, _)
\* JSON.stringify(x) when pretty is FALSE, JSON.stringify(x, null, 2) when it
\* is TRUE (one "\n" stands for each line break with its indentation).
Stringify(x, pretty) ==
  CASE x.t \in {"null", "undef"} -> <<"null">>
    [] x.t \in {"bool", "num"} -> x.v
    [] x.t = "str" -> <<QUOTE>> \o EscapeStr(x.v) \o <<QUOTE>>
    [] x.t = "arr" ->
         IF x.v = <<>> THEN <<"[", "]">>
         ELSE <<"[">> \o StringifyElements(x.v, pretty, TRUE) \o
              (IF pretty THEN <<"\n">> ELSE <<>>) \o <<"]">>
    [] x.t = "obj" ->
         LET ms == SelectSeq(x.v, LAMBDA m : m.v.t # "undef") IN
         IF ms = <<>> THEN <<"{", "}">>
         ELSE <<"{">> \o StringifyMembers(ms, pretty, TRUE) \o
              (IF pretty THEN <<"\n">> ELSE <<>>) \o <<"}">>

StringifyMembers(ms, pretty, first) ==
  IF ms = <<>> THEN <<>>
  ELSE (IF first THEN <<>> ELSE <<",">>) \o
       (IF pretty THEN <<"\n">> ELSE <<>>) \o
       <<QUOTE>> \o EscapeStr(Head(ms).k) \o <<QUOTE, ":">> \o
       (IF pretty THEN <<" ">> ELSE <<>>) \o
       Stringify(Head(ms).v, pretty) \o
       StringifyMembers(Tail(ms), pretty, FALSE)

StringifyElements(es, pretty, first) ==
  IF es = <<>> THEN <<>>
  ELSE (IF first THEN <<>> ELSE <<",">>) \o
       (IF pretty THEN <<"\n">> ELSE <<>>) \o
       Stringify(Head(es), pretty) \o
       StringifyElements(Tail(es), pretty, FALSE)

(***************************************************************************)
(* Model gateway (src/lib/chat-client.ts)                                  *)
(***************************************************************************)
TOOL_CALL_MARKER == "TOOL_CALL:"

FINAL_MARKER == "FINAL:"

\* interface ToolCall; type is always "function".
ToolCall(id, name, arguments) == [id |-> id, name |-> name, arguments |-> arguments]

\* Variant of the brace matching: the first closing brace ends the object.
ScanBalance_firstClose(s, i, balance) == IndexOf(s, "}", i)

RECURSIVE ScanBalance(_, _, _)
\* The brace-matching for loop of parseFallbackToolCall: the value of
\* endIndex - 1 (the position of the matching closing brace), 0 for -1.
ScanBalance(s, i, balance) ==
  IF i > Len(s) THEN 0
  ELSE IF s[i] = "{" THEN ScanBalance(s, i + 1, balance + 1)
  ELSE IF s[i] = "}"
       THEN IF balance - 1 = 0 THEN i ELSE ScanBalance(s, i + 1, balance - 1)
  ELSE ScanBalance(s, i + 1, balance)

\* toolCallSchema.parse: an object whose tool is a string and whose args is
\* an object (z.record rejects arrays and null).
ToolCallSchemaOk(x) ==
  /\ x.t = "obj"
  /\ Get(x, "tool").t = "str"
  /\ Get(x, "args").t = "obj"

NoToolCall == [found |-> FALSE, call |-> ToolCall(<<>>, <<>>, <<>>)]

\* Variant of the try block: whatever JSON.parse accepts is a tool call.
toolCallFromJson_noSchema(parsed, t) ==
  IF parsed.ok
  THEN [found |-> TRUE,
        call |-> ToolCall(<<"call_", ToString(t)>>, Stringify(Get(parsed.val, "tool"), FALSE),
                          Stringify(Get(parsed.val, "args"), FALSE))]
  ELSE NoToolCall

\* The try block of parseFallbackToolCall on the outcome of JSON.parse(jsonStr)
\* at time t (the id is call_<Date.now()>); the catch returns null.
toolCallFromJson(parsed, t) ==
  IF parsed.ok /\ ToolCallSchemaOk(parsed.val)
  THEN [found |-> TRUE,
        call |-> ToolCall(<<"call_", ToString(t)>>, Get(parsed.val, "tool").v,
                          Stringify(Get(parsed.val, "args"), FALSE))]
  ELSE NoToolCall

\* parseFallbackToolCall(content), called at time t
parseFallbackToolCall(content, t) ==
  LET invokeIndex == IndexOf(content, TOOL_CALL_MARKER, 1) IN
  IF invokeIndex = 0 THEN NoToolCall
  ELSE LET startIndex == IndexOf(content, "{", invokeIndex) IN
       IF startIndex = 0 THEN NoToolCall
       ELSE LET endIndex == ScanBalance(content, startIndex, 0) IN
            IF endIndex = 0 THEN NoToolCall
            ELSE toolCallFromJson(JSONParse(SubSeq(content, startIndex, endIndex)), t)

\* Variant of parseFinalAnswer: everything after the marker, not trimmed.
parseFinalAnswer_untrimmed(content) ==
  LET i == IndexOf(content, FINAL_MARKER, 1) IN
  IF i = 0 \/ i = Len(content) THEN [found |-> FALSE, text |-> <<>>]
  ELSE [found |-> TRUE, text |-> SubSeq(content, i + 1, Len(content))]

\* parseFinalAnswer(content): content.match(/FINAL:\s*([\s\S]+)$/), group 1
\* trimmed; found = FALSE is null.  The leftmost FINAL: matches unless
\* nothing follows it; \s* gives back one character when only whitespace follows.
parseFinalAnswer(content) ==
  LET i == IndexOf(content, FINAL_MARKER, 1) IN
  IF i = 0 \/ i = Len(content) THEN [found |-> FALSE, text |-> <<>>]
  ELSE [found |-> TRUE, text |-> Trim(SubSeq(content, i + 1, Len(content)))]

\* interface ChatResponse, or the Error chat() throws.  hasContent = FALSE is
\* content null/undefined; toolCalls = <<>> is toolCalls null (the loop
\* treats null and the empty list alike).
ChatResponse(content, hasContent, toolCalls, finishReason) ==
  [threw |-> FALSE, error |-> <<>>, content |-> content, hasContent |-> hasContent,
   toolCalls |-> toolCalls, finishReason |-> finishReason]

ChatError(message) ==
  [threw |-> TRUE, error |-> message, content |-> <<>>, hasContent |-> FALSE,
   toolCalls |-> <<>>, finishReason |-> "error"]

\* Variant of the branches: the final answer is looked for first.
normalized_finalFirst(content, fallbackToolCall, finalAnswer, rawFinish) ==
  IF finalAnswer.found /\ finalAnswer.text # <<>>
  THEN ChatResponse(finalAnswer.text, TRUE, <<>>, "stop")
  ELSE IF fallbackToolCall.found
  THEN ChatResponse(<<>>, FALSE, <<fallbackToolCall.call>>, "tool_calls")
  ELSE ChatResponse(content, TRUE, <<>>, rawFinish)

\* The branches after the two parsers have run: the fallback tool call if
\* one was found, else the final answer if it is not empty, else the raw
\* text with the given finish reason.
normalized(content, fallbackToolCall, finalAnswer, rawFinish) ==
  IF fallbackToolCall.found
  THEN ChatResponse(<<>>, FALSE, <<fallbackToolCall.call>>, "tool_calls")
  ELSE IF finalAnswer.found /\ finalAnswer.text # <<>>
  THEN ChatResponse(finalAnswer.text, TRUE, <<>>, "stop")
  ELSE ChatResponse(content, TRUE, <<>>, rawFinish)

\* The text grammar shared by the three backends, at time t.
NormalizeText(content, t, rawFinish) ==
  normalized(content, parseFallbackToolCall(content, t), parseFinalAnswer(content), rawFinish)

\* What the backend sends back for one request.
\*   kind "http_error": response.ok is false; status and body as given
\*   kind "no_choice": a 2xx body without choices[0] (HF: without choices
\*                     and without generated_text)
\*   kind "message": choices[0].message with tool_calls and content
\*   kind "generated_text": the legacy HF body {generated_text}
\*   kind "sdk_error": the Gemini SDK call rejects
\*   kind "text": the Gemini result.response.text()
RawResponse(kind, content, hasContent, tool_calls, finish_reason) ==
  [kind |-> kind, content |-> content, hasContent |-> hasContent,
   tool_calls |-> tool_calls, finish_reason |-> finish_reason]

\* callOpenAICompatible after the fetch
callOpenAICompatible(raw, t) ==
  IF raw.kind = "http_error"
  THEN ChatError(<<"OpenAI-compatible API error: ", "status">> \o <<" - ">> \o raw.content)
  ELSE IF raw.kind # "message"
  THEN ChatError(<<"No response from OpenAI-compatible API">>)
  ELSE IF Len(raw.tool_calls) > 0
  THEN ChatResponse(raw.content, raw.hasContent, raw.tool_calls, "tool_calls")
  ELSE NormalizeText(IF raw.hasContent THEN raw.content ELSE <<>>, t,
                     IF raw.finish_reason = "stop" THEN "stop" ELSE "length")

\* callHuggingFace after the fetch
callHuggingFace(raw, t) ==
  IF raw.kind = "http_error"
  THEN ChatError(<<"HuggingFace API error: ", "status">> \o <<" - ">> \o raw.content)
  ELSE IF raw.kind = "message"
  THEN IF Len(raw.tool_calls) > 0
       THEN ChatResponse(raw.content, raw.hasContent, raw.tool_calls, "tool_calls")
       ELSE NormalizeText(IF raw.hasContent THEN raw.content ELSE <<>>, t, "stop")
  ELSE IF raw.kind = "generated_text" /\ raw.content # <<>>
  THEN NormalizeText(raw.content, t, "stop")
  ELSE ChatError(<<"Unexpected HuggingFace API response format">>)

\* callGemini after chat.sendMessage
callGemini(raw, t) ==
  IF raw.kind # "text"
  THEN ChatError(<<"Gemini SDK error">>)
  ELSE NormalizeText(raw.content, t, "stop")

\* process.env as chat() reads it; useOpenAICompat is !!OPENAI_COMPAT_BASE_URL.
\* UPSTASH: both UPSTASH_REDIS_REST_URL and _TOKEN are set (read by rate-limit.ts).
Env(google, hfKey, hfModel, compatModel, compatUrl) ==
  [GOOGLE_API_KEY |-> google, HF_API_KEY |-> hfKey, HF_MODEL |-> hfModel,
   OPENAI_COMPAT_MODEL |-> compatModel, OPENAI_COMPAT_BASE_URL |-> compatUrl,
   UPSTASH |-> FALSE]

\* The backend chat() selects, "none" when it throws before any request.
Backend(e) ==
  IF e.GOOGLE_API_KEY THEN "gemini"
  ELSE IF ~e.HF_API_KEY THEN "none"
  ELSE IF ~e.HF_MODEL /\ ~e.OPENAI_COMPAT_MODEL THEN "none"
  ELSE IF e.OPENAI_COMPAT_BASE_URL THEN "openai"
  ELSE "hf"

\* Variant of chat(): the environment is not checked before the backend is called.
chat_unchecked(e, raw, t) ==
  IF e.GOOGLE_API_KEY THEN callGemini(raw, t)
  ELSE IF e.OPENAI_COMPAT_BASE_URL THEN callOpenAICompatible(raw, t)
  ELSE callHuggingFace(raw, t)

\* chat(messages, tools) given the backend's answer to its one request
chat(e, raw, t) ==
  IF e.GOOGLE_API_KEY THEN callGemini(raw, t)
  ELSE IF ~e.HF_API_KEY
  THEN ChatError(<<"HF_API_KEY or GOOGLE_API_KEY environment variable is required">>)
  ELSE IF ~e.HF_MODEL /\ ~e.OPENAI_COMPAT_MODEL
  THEN ChatError(<<"HF_MODEL or OPENAI_COMPAT_MODEL environment variable is required">>)
  ELSE IF e.OPENAI_COMPAT_BASE_URL THEN callOpenAICompatible(raw, t)
  ELSE callHuggingFace(raw, t)

(***************************************************************************)
(* Content files (content/*.json) as the tool registry reads them; the     *)
(* fields follow the interfaces of src/lib/mcp-tools.ts.                   *)
(***************************************************************************)
Str1(w) == JStr(<<w>>)

StrList(ws) == JArr([i \in 1..Len(ws) |-> Str1(ws[i])])

SiteFile ==
  JObj(<<M("name", Str1("Nashid")), M("title", Str1("Engineer")),
         M("bio", JStr(<<"ML", " ", "engineer">>)), M("location", Str1("Berlin")),
         M("socials", JObj(<<M("github", Str1("gh-url")), M("email", Str1("x@y.com"))>>)),
         M("highlights", StrList(<<"NLP">>))>>)

ResumeFile ==
  JObj(<<M("summary", JStr(<<"Builds", " ", "LLM", " ", "systems">>)),
         M("experience", JArr(<<JObj(<<M("company", Str1("Acme")), M("role", Str1("Engineer")),
                                       M("period", Str1("2023-01")), M("location", Str1("Berlin")),
                                       M("highlights", StrList(<<"MLOps", "NLP">>))>>)>>)),
         M("education", JArr(<<JObj(<<M("institution", Str1("TU")), M("degree", Str1("MSc")),
                                      M("focus", Str1("NLP")), M("period", Str1("2023-01"))>>)>>)),
         M("certifications", StrList(<<"AWS">>)),
         M("skills", JObj(<<M("programming", StrList(<<"Python">>)),
                            M("frameworks", StrList(<<"PyTorch">>)),
                            M("cloud_mlops", StrList(<<"AWS">>)),
                            M("llm", StrList(<<"RAG">>)),
                            M("ml", StrList(<<"NLP">>))>>))>>)

Project(slug, title, tags, featured, date) ==
  JObj(<<M("slug", Str1(slug)), M("title", Str1(title)),
         M("shortDescription", Str1("short")), M("description", JStr(<<"about", " ", title>>)),
         M("metrics", JObj(<<M("accuracy", Str1("high"))>>)),
         M("techStack", StrList(<<"Python">>)), M("tags", StrList(tags)),
         M("featured", JBool(featured)), M("date", Str1(date)),
         M("status", Str1("completed")), M("githubUrl", JNull), M("demoUrl", Str1("demo-url"))>>)

ProjectsFile ==
  JObj(<<M("projects", JArr(<<Project("moa", "Optimizer", <<"NLP", "LLM">>, FALSE, "2023-01"),
                              Project("rag", "Retriever", <<"RAG">>, TRUE, "2024-06"),
                              Project("ops", "Pipeline", <<"MLOps">>, FALSE, "2024-06")>>))>>)

Files == {"site.json", "resume.json", "projects.json"}

FileContent(f) ==
  CASE f = "site.json" -> SiteFile
    [] f = "resume.json" -> ResumeFile
    [] f = "projects.json" -> ProjectsFile

\* new Date(s).getTime() for the date strings of the content; 0 stands for NaN.
DateGetTime(s) ==
  CASE s = <<"2023-01">> -> 1672531200
    [] s = <<"2024-06">> -> 1717200000
    [] OTHER -> 0

\* String.prototype.toLowerCase on one character of the model
LowerChar(c) ==
  CASE c = "NLP" -> "nlp" [] c = "LLM" -> "llm" [] c = "RAG" -> "rag"
    [] c = "MLOps" -> "mlops" [] c = "AWS" -> "aws" [] c = "ML" -> "ml"
    [] c = "Python" -> "python" [] c = "PyTorch" -> "pytorch"
    [] c = "Nashid" -> "nashid" [] c = "Acme" -> "acme" [] c = "Engineer" -> "engineer"
    [] c = "Optimizer" -> "optimizer" [] c = "Retriever" -> "retriever"
    [] c = "Pipeline" -> "pipeline" [] c = "Builds" -> "builds"
    [] OTHER -> c

toLowerCase(s) == [i \in 1..Len(s) |-> LowerChar(s[i])]

\* String.prototype.includes
includes(s, q) ==
  \E i \in 1..(Len(s) - Len(q) + 1) : SubSeq(s, i, i + Len(q) - 1) = q

\* String(x) as a template literal renders a value
ToStr(x) ==
  CASE x.t \in {"str", "num", "bool"} -> x.v
    [] x.t = "null" -> <<"null">>
    [] x.t = "undef" -> <<"undefined">>
    [] OTHER -> <<"[object Object]">>

(***************************************************************************)
(* Tool registry (src/lib/mcp-tools.ts)                                    *)
(***************************************************************************)
toolDefinitions ==
  <<"search_site", "list_projects", "get_project", "get_skills",
    "get_resume_section", "get_contact">>

\* The three module-level caches; JNull is null.
Caches(site, resume, projects) == [site |-> site, resume |-> resume, projects |-> projects]

\* readContent(filename) succeeds iff the file is readable on disk.
\* getSite / getResume / getProjects: the cached value, else the file.
getSite(c, d) ==
  IF c.site.t # "null" THEN [ok |-> TRUE, val |-> c.site, c |-> c]
  ELSE IF "site.json" \in d
       THEN [ok |-> TRUE, val |-> SiteFile, c |-> [c EXCEPT !.site = SiteFile]]
       ELSE [ok |-> FALSE, val |-> JNull, c |-> c]

getResume(c, d) ==
  IF c.resume.t # "null" THEN [ok |-> TRUE, val |-> c.resume, c |-> c]
  ELSE IF "resume.json" \in d
       THEN [ok |-> TRUE, val |-> ResumeFile, c |-> [c EXCEPT !.resume = ResumeFile]]
       ELSE [ok |-> FALSE, val |-> JNull, c |-> c]

getProjects(c, d) ==
  IF c.projects.t # "null"
  THEN [ok |-> TRUE, val |-> Get(c.projects, "projects"), c |-> c]
  ELSE IF "projects.json" \in d
       THEN [ok |-> TRUE, val |-> Get(ProjectsFile, "projects"),
             c |-> [c EXCEPT !.projects = ProjectsFile]]
       ELSE [ok |-> FALSE, val |-> JNull, c |-> c]

\* The outcome of one callTool: the returned string, or the thrown Error.
Returned(result, c) == [threw |-> FALSE, error |-> <<>>, result |-> result, c |-> c]

Thrown(message, c) == [threw |-> TRUE, error |-> message, result |-> <<>>, c |-> c]

ENOENT == <<"ENOENT: no such file or directory">>

NotAFunction == <<"toLowerCase is not a function">>

\* arr.some(h => h.toLowerCase().includes(query)) over an array of strings
someIncludes(arr, query) ==
  \E i \in 1..Len(arr.v) : includes(toLowerCase(arr.v[i].v), query)

featuredNum(p) == IF Truthy(Get(p, "featured")) THEN 1 ELSE 0

\* Variant of the comparators: the operands of the subtraction are swapped.
Before_swapped(a, b, sort) ==
  IF sort = "impact"
  THEN featuredNum(a) - featuredNum(b) < 0
  ELSE DateGetTime(Get(a, "date").v) - DateGetTime(Get(b, "date").v) < 0

\* The comparators of list_projects, as "compare(a, b) < 0":
\*   impact: (b.featured ? 1 : 0) - (a.featured ? 1 : 0)
\*   else:   new Date(b.date).getTime() - new Date(a.date).getTime()
Before(a, b, sort) ==
  IF sort = "impact"
  THEN featuredNum(b) - featuredNum(a) < 0
  ELSE DateGetTime(Get(b, "date").v) - DateGetTime(Get(a, "date").v) < 0

RECURSIVE InsertSorted(_, _, _)
\* x placed after every element it does not have to precede
InsertSorted(x, sorted, sort) ==
  IF sorted = <<>> THEN <<x>>
  ELSE IF Before(x, sorted[Len(sorted)], sort)
       THEN Append(InsertSorted(x, SubSeq(sorted, 1, Len(sorted) - 1), sort),
                   sorted[Len(sorted)])
       ELSE Append(sorted, x)

RECURSIVE StableSort(_, _)
\* Array.prototype.sort with one of the two comparators (the sort is stable)
StableSort(xs, sort) ==
  IF xs = <<>> THEN <<>>
  ELSE InsertSorted(xs[Len(xs)], StableSort(SubSeq(xs, 1, Len(xs) - 1), sort), sort)

\* case "search_site"
search_site(args, c0, d) ==
  LET q == Get(args, "query") IN
  IF Truthy(q) /\ q.t # "str" THEN Thrown(NotAFunction, c0)
  ELSE
  LET query == IF Truthy(q) THEN toLowerCase(q.v) ELSE <<>>
      s == getSite(c0, d)
      r == getResume(s.c, d)
      p == getProjects(r.c, d) IN
  IF ~s.ok THEN Thrown(ENOENT, s.c)
  ELSE IF ~r.ok THEN Thrown(ENOENT, r.c)
  ELSE IF ~p.ok THEN Thrown(ENOENT, p.c)
  ELSE
  LET site == s.val
      resume == r.val
      projects == p.val.v
      hit(type, title, snippet) ==
        JObj(<<M("type", Str1(type)), M("title", JStr(title)), M("snippet", JStr(snippet))>>)
      about ==
        IF \/ includes(toLowerCase(Get(site, "bio").v), query)
           \/ includes(toLowerCase(Get(site, "name").v), query)
           \/ someIncludes(Get(site, "highlights"), query)
        THEN <<hit("about", <<"About ">> \o Get(site, "name").v, Get(site, "bio").v)>>
        ELSE <<>>
      summary ==
        IF includes(toLowerCase(Get(resume, "summary").v), query)
        THEN <<hit("resume", <<"Professional Summary">>, Get(resume, "summary").v)>>
        ELSE <<>>
      expMatch(e) ==
        \/ includes(toLowerCase(Get(e, "company").v), query)
        \/ includes(toLowerCase(Get(e, "role").v), query)
        \/ someIncludes(Get(e, "highlights"), query)
      exps == SelectSeq(Get(resume, "experience").v, expMatch)
      expHits ==
        [i \in 1..Len(exps) |->
           hit("experience",
               Get(exps[i], "role").v \o <<" at ">> \o Get(exps[i], "company").v,
               LET hs == Get(exps[i], "highlights").v IN
               IF Len(hs) = 0 THEN <<>>
               ELSE IF Len(hs) = 1 THEN hs[1].v
               ELSE hs[1].v \o <<". ">> \o hs[2].v)]
      projMatch(pr) ==
        \/ includes(toLowerCase(Get(pr, "title").v), query)
        \/ includes(toLowerCase(Get(pr, "description").v), query)
        \/ someIncludes(Get(pr, "tags"), query)
        \/ someIncludes(Get(pr, "techStack"), query)
      projs == SelectSeq(projects, projMatch)
      projHits ==
        [i \in 1..Len(projs) |->
           hit("project", Get(projs[i], "title").v, Get(projs[i], "shortDescription").v)]
      skills == Get(resume, "skills").v
      allSkills == Concat([i \in 1..Len(skills) |-> skills[i].v.v])
      matchedSkills == SelectSeq(allSkills, LAMBDA sk : includes(toLowerCase(sk.v), query))
      skillHits ==
        IF Len(matchedSkills) > 0
        THEN <<hit("skills", <<"Technical Skills">>,
                   <<"Matching skills: ">> \o
                   Concat([i \in 1..Len(matchedSkills) |->
                             (IF i > 1 THEN <<", ">> ELSE <<>>) \o matchedSkills[i].v]))>>
        ELSE <<>>
      results == about \o summary \o expHits \o projHits \o skillHits IN
  Returned(Stringify(JObj(<<M("query", JStr(query)),
                            M("resultsCount", JNum(<<ToString(Len(results))>>)),
                            M("results", JArr(results))>>), TRUE), p.c)

\* Variant of list_projects: the cached array itself is sorted, not a copy.
list_projects_inPlace(args, c0, d) ==
  LET tag == Get(args, "tag")
      sortArg == Get(args, "sort")
      sort == IF Truthy(sortArg) THEN sortArg ELSE Str1("impact")
      p == getProjects(c0, d) IN
  IF ~p.ok THEN Thrown(ENOENT, p.c)
  ELSE IF /\ Truthy(tag) /\ tag.t # "str"
          /\ \E i \in 1..Len(p.val.v) : Len(Get(p.val.v[i], "tags").v) > 0
  THEN Thrown(NotAFunction, p.c)
  ELSE
  LET filtered ==
        IF Truthy(tag)
        THEN SelectSeq(p.val.v,
                       LAMBDA pr : \E i \in 1..Len(Get(pr, "tags").v) :
                                     toLowerCase(Get(pr, "tags").v[i].v) = toLowerCase(tag.v))
        ELSE p.val.v
      projects == StableSort(filtered, IF StrictEq(sort, Str1("impact")) THEN "impact" ELSE "recent")
      projectList ==
        [i \in 1..Len(projects) |->
           JObj(<<M("slug", Get(projects[i], "slug")), M("title", Get(projects[i], "title")),
                  M("shortDescription", Get(projects[i], "shortDescription")),
                  M("tags", Get(projects[i], "tags")), M("metrics", Get(projects[i], "metrics")),
                  M("featured", Get(projects[i], "featured")), M("date", Get(projects[i], "date")),
                  M("status", Get(projects[i], "status")),
                  M("githubUrl", Get(projects[i], "githubUrl")),
                  M("demoUrl", Get(projects[i], "demoUrl"))>>)] IN
  Returned(Stringify(JObj(<<M("filters", JObj(<<M("tag", tag), M("sort", sort)>>)),
                            M("count", JNum(<<ToString(Len(projectList))>>)),
                            M("projects", JArr(projectList))>>), TRUE),
           IF Truthy(tag) THEN p.c
           ELSE [p.c EXCEPT !.projects = JObj(<<M("projects", JArr(projects))>>)])

\* case "list_projects"
list_projects(args, c0, d) ==
  LET tag == Get(args, "tag")
      sortArg == Get(args, "sort")
      sort == IF Truthy(sortArg) THEN sortArg ELSE Str1("impact")
      p == getProjects(c0, d) IN
  IF ~p.ok THEN Thrown(ENOENT, p.c)
  ELSE IF /\ Truthy(tag) /\ tag.t # "str"
          /\ \E i \in 1..Len(p.val.v) : Len(Get(p.val.v[i], "tags").v) > 0
  THEN Thrown(NotAFunction, p.c)
  ELSE
  LET filtered ==
        IF Truthy(tag)
        THEN SelectSeq(p.val.v,
                       LAMBDA pr : \E i \in 1..Len(Get(pr, "tags").v) :
                                     toLowerCase(Get(pr, "tags").v[i].v) = toLowerCase(tag.v))
        ELSE p.val.v
      projects == StableSort(filtered, IF StrictEq(sort, Str1("impact")) THEN "impact" ELSE "recent")
      projectList ==
        [i \in 1..Len(projects) |->
           JObj(<<M("slug", Get(projects[i], "slug")), M("title", Get(projects[i], "title")),
                  M("shortDescription", Get(projects[i], "shortDescription")),
                  M("tags", Get(projects[i], "tags")), M("metrics", Get(projects[i], "metrics")),
                  M("featured", Get(projects[i], "featured")), M("date", Get(projects[i], "date")),
                  M("status", Get(projects[i], "status")),
                  M("githubUrl", Get(projects[i], "githubUrl")),
                  M("demoUrl", Get(projects[i], "demoUrl"))>>)] IN
  Returned(Stringify(JObj(<<M("filters", JObj(<<M("tag", tag), M("sort", sort)>>)),
                            M("count", JNum(<<ToString(Len(projectList))>>)),
                            M("projects", JArr(projectList))>>), TRUE), p.c)

\* Variant of get_project: "not found" names the project and nothing else.
get_project_noSlugs(args, c0, d) ==
  LET slug == Get(args, "slug") IN
  IF ~Truthy(slug)
  THEN Returned(Stringify(JObj(<<M("error", Str1("slug is required"))>>), FALSE), c0)
  ELSE
  LET p == getProjects(c0, d) IN
  IF ~p.ok THEN Thrown(ENOENT, p.c)
  ELSE
  LET found == SelectSeq(p.val.v, LAMBDA pr : StrictEq(Get(pr, "slug"), slug)) IN
  IF found = <<>>
  THEN Returned(Stringify(
         JObj(<<M("error", JStr(<<"Project not found: ">> \o ToStr(slug)))>>), FALSE), p.c)
  ELSE Returned(Stringify(found[1], TRUE), p.c)

\* case "get_project"
get_project(args, c0, d) ==
  LET slug == Get(args, "slug") IN
  IF ~Truthy(slug)
  THEN Returned(Stringify(JObj(<<M("error", Str1("slug is required"))>>), FALSE), c0)
  ELSE
  LET p == getProjects(c0, d) IN
  IF ~p.ok THEN Thrown(ENOENT, p.c)
  ELSE
  LET found == SelectSeq(p.val.v, LAMBDA pr : StrictEq(Get(pr, "slug"), slug)) IN
  IF found = <<>>
  THEN Returned(Stringify(
         JObj(<<M("error", JStr(<<"Project not found: ">> \o ToStr(slug))),
                M("availableSlugs",
                  JArr([i \in 1..Len(p.val.v) |-> Get(p.val.v[i], "slug")]))>>), FALSE), p.c)
  ELSE Returned(Stringify(found[1], TRUE), p.c)

\* case "get_skills"
get_skills(args, c0, d) ==
  LET r == getResume(c0, d) IN
  IF ~r.ok THEN Thrown(ENOENT, r.c)
  ELSE Returned(Stringify(JObj(<<M("skills", Get(r.val, "skills")),
                                 M("certifications", Get(r.val, "certifications"))>>), TRUE), r.c)

\* case "get_resume_section"
get_resume_section(args, c0, d) ==
  LET section == Get(args, "section") IN
  IF ~Truthy(section)
  THEN Returned(Stringify(JObj(<<M("error", Str1("section is required"))>>), FALSE), c0)
  ELSE
  LET r == getResume(c0, d) IN
  IF ~r.ok THEN Thrown(ENOENT, r.c)
  ELSE IF StrictEq(section, Str1("summary"))
  THEN Returned(Stringify(JObj(<<M("summary", Get(r.val, "summary"))>>), TRUE), r.c)
  ELSE IF StrictEq(section, Str1("experience"))
  THEN Returned(Stringify(JObj(<<M("experience", Get(r.val, "experience"))>>), TRUE), r.c)
  ELSE IF StrictEq(section, Str1("education"))
  THEN Returned(Stringify(JObj(<<M("education", Get(r.val, "education")),
                                 M("certifications", Get(r.val, "certifications"))>>), TRUE), r.c)
  ELSE Returned(Stringify(JObj(<<M("error", JStr(<<"Unknown section: ">> \o ToStr(section)))>>),
                          FALSE), r.c)

\* case "get_contact"
get_contact(args, c0, d) ==
  LET s == getSite(c0, d) IN
  IF ~s.ok THEN Thrown(ENOENT, s.c)
  ELSE Returned(Stringify(JObj(<<M("name", Get(s.val, "name")),
                                 M("location", Get(s.val, "location")),
                                 M("socials", Get(s.val, "socials"))>>), TRUE), s.c)

\* Variant of callTool: the default case throws instead of returning.
callTool_unknownThrows(name, args, c0, d) ==
  CASE name = <<"search_site">> -> search_site(args, c0, d)
    [] name = <<"list_projects">> -> list_projects(args, c0, d)
    [] name = <<"get_project">> -> get_project(args, c0, d)
    [] name = <<"get_skills">> -> get_skills(args, c0, d)
    [] name = <<"get_resume_section">> -> get_resume_section(args, c0, d)
    [] name = <<"get_contact">> -> get_contact(args, c0, d)
    [] OTHER -> Thrown(<<"Unknown tool: ">> \o name, c0)

\* callTool(name, args) with the caches c0 and the readable files d
callTool(name, args, c0, d) ==
  CASE name = <<"search_site">> -> search_site(args, c0, d)
    [] name = <<"list_projects">> -> list_projects(args, c0, d)
    [] name = <<"get_project">> -> get_project(args, c0, d)
    [] name = <<"get_skills">> -> get_skills(args, c0, d)
    [] name = <<"get_resume_section">> -> get_resume_section(args, c0, d)
    [] name = <<"get_contact">> -> get_contact(args, c0, d)
    [] OTHER -> Returned(Stringify(JObj(<<M("error", JStr(<<"Unknown tool: ">> \o name))>>),
                                   FALSE), c0)

(***************************************************************************)
(* Rate limiter (src/lib/rate-limit.ts), in-memory path                    *)
(***************************************************************************)
WINDOW_MS == 60000

MAX_REQUESTS == 20

CLEANUP_SIZE == 10000

RateLimitResult(allowed, remaining, resetAt) ==
  [allowed |-> allowed, remaining |-> remaining, resetAt |-> resetAt]

\* Variant of the in-memory branch: the limit test written > instead of >=.
checkRateLimit_oneMore(store, identifier, t) ==
  IF identifier \notin DOMAIN store \/ store[identifier].resetAt < t
  THEN [result |-> RateLimitResult(TRUE, MAX_REQUESTS - 1, t + WINDOW_MS),
        store |-> [k \in DOMAIN store \cup {identifier} |->
                     IF k = identifier THEN [count |-> 1, resetAt |-> t + WINDOW_MS]
                     ELSE store[k]]]
  ELSE IF store[identifier].count > MAX_REQUESTS
  THEN [result |-> RateLimitResult(FALSE, 0, store[identifier].resetAt), store |-> store]
  ELSE [result |-> RateLimitResult(TRUE, MAX_REQUESTS - (store[identifier].count + 1),
                                   store[identifier].resetAt),
        store |-> [store EXCEPT ![identifier].count = @ + 1]]

\* Variant of the in-memory branch: a denied call is counted too.
checkRateLimit_countsDenied(store, identifier, t) ==
  IF identifier \notin DOMAIN store \/ store[identifier].resetAt < t
  THEN [result |-> RateLimitResult(TRUE, MAX_REQUESTS - 1, t + WINDOW_MS),
        store |-> [k \in DOMAIN store \cup {identifier} |->
                     IF k = identifier THEN [count |-> 1, resetAt |-> t + WINDOW_MS]
                     ELSE store[k]]]
  ELSE IF store[identifier].count >= MAX_REQUESTS
  THEN [result |-> RateLimitResult(FALSE, 0, store[identifier].resetAt),
        store |-> [store EXCEPT ![identifier].count = @ + 1]]
  ELSE [result |-> RateLimitResult(TRUE, MAX_REQUESTS - (store[identifier].count + 1),
                                   store[identifier].resetAt),
        store |-> [store EXCEPT ![identifier].count = @ + 1]]

\* The in-memory branch of checkRateLimit at time t: the result and the store after it.
\* The store is a function from the identifiers that have an entry.
checkRateLimit(store, identifier, t) ==
  LET hadEntry == identifier \in DOMAIN store
      swept ==
        IF Cardinality(DOMAIN store) > CLEANUP_SIZE
        THEN [k \in {k \in DOMAIN store : ~(store[k].resetAt < t - WINDOW_MS)} |-> store[k]]
        ELSE store IN
  IF ~hadEntry \/ store[identifier].resetAt < t
  THEN [result |-> RateLimitResult(TRUE, MAX_REQUESTS - 1, t + WINDOW_MS),
        store |-> [k \in DOMAIN swept \cup {identifier} |->
                     IF k = identifier THEN [count |-> 1, resetAt |-> t + WINDOW_MS]
                     ELSE swept[k]]]
  ELSE IF store[identifier].count >= MAX_REQUESTS
  THEN [result |-> RateLimitResult(FALSE, 0, store[identifier].resetAt), store |-> swept]
  ELSE [result |-> RateLimitResult(TRUE, MAX_REQUESTS - (store[identifier].count + 1),
                                   store[identifier].resetAt),
        store |-> [swept EXCEPT ![identifier].count = @ + 1]]

\* getRateLimitHeaders(remaining, resetAt): Limit, Remaining, Reset = ceil(resetAt / 1000)
getRateLimitHeaders(remaining, resetAt) ==
  <<MAX_REQUESTS, remaining, (resetAt + 999) \div 1000>>

(***************************************************************************)
(* Request boundary and orchestration loop (src/app/api/chat/route.ts)     *)
(***************************************************************************)
\* Variant of the loop bound: a while test written <= instead of <.
MAX_TOOL_ITERATIONS_inclusive == 5 + 1

MAX_TOOL_ITERATIONS == 5

MAX_CONTENT == 4000

MAX_MESSAGES == 20

MAX_CARDS == 5

\* The character that stands for a run of 4001 ordinary characters.
LongText == "<4001 characters>"

RECURSIVE StrLength(_)
\* String.prototype.length
StrLength(s) ==
  IF s = <<>> THEN 0
  ELSE (IF Head(s) = LongText THEN MAX_CONTENT + 1 ELSE 1) + StrLength(Tail(s))

\* getClientIP(request): the first entry of x-forwarded-for, else x-real-ip, else "unknown"
getClientIP(req) ==
  IF req.forwardedFor # <<>>
  THEN LET comma == IndexOf(req.forwardedFor, ",", 1) IN
       Trim(IF comma = 0 THEN req.forwardedFor ELSE SubSeq(req.forwardedFor, 1, comma - 1))
  ELSE IF req.realIP # <<>> THEN req.realIP
  ELSE <<"unknown">>

\* Variant of the schema: any string is accepted as a role.
requestSchemaOk_anyRole(body) ==
  /\ body.t = "obj"
  /\ Get(body, "messages").t = "arr"
  /\ Len(Get(body, "messages").v) >= 1
  /\ Len(Get(body, "messages").v) <= MAX_MESSAGES
  /\ \A i \in 1..Len(Get(body, "messages").v) :
       LET m == Get(body, "messages").v[i] IN
       /\ m.t = "obj"
       /\ Get(m, "role").t = "str"
       /\ Get(m, "content").t = "str"
       /\ StrLength(Get(m, "content").v) <= MAX_CONTENT
  /\ Get(body, "sessionId").t \in {"undef", "str"}

\* requestSchema.safeParse(body).success
requestSchemaOk(body) ==
  /\ body.t = "obj"
  /\ Get(body, "messages").t = "arr"
  /\ Len(Get(body, "messages").v) >= 1
  /\ Len(Get(body, "messages").v) <= MAX_MESSAGES
  /\ \A i \in 1..Len(Get(body, "messages").v) :
       LET m == Get(body, "messages").v[i] IN
       /\ m.t = "obj"
       /\ Get(m, "role").t = "str"
       /\ Get(m, "role").v \in {<<"user">>, <<"assistant">>}
       /\ Get(m, "content").t = "str"
       /\ StrLength(Get(m, "content").v) <= MAX_CONTENT
  /\ Get(body, "sessionId").t \in {"undef", "str"}

\* interface ChatMessage; <<>> for an absent tool_call_id or tool_calls
ChatMessage(role, content, tool_call_id, tool_calls) ==
  [role |-> role, content |-> content, tool_call_id |-> tool_call_id,
   tool_calls |-> tool_calls]

\* getSystemPrompt(tools): the fixed text around one "- name: description" line per tool
getSystemPrompt(tools) ==
  <<"You are a helpful assistant for a portfolio website.", "\n">> \o
  Concat([i \in 1..Len(tools) |-> <<"- ", tools[i], ": ", "description", "\n">>]) \o
  <<"RESPONSE FORMAT">>

\* The transcript the loop starts from: system prompt, then the caller's messages.
initialConversation(body) ==
  <<ChatMessage("system", getSystemPrompt(toolDefinitions), <<>>, <<>>)>> \o
  [i \in 1..Len(Get(body, "messages").v) |->
     ChatMessage(Get(Get(body, "messages").v[i], "role").v[1],
                 Get(Get(body, "messages").v[i], "content").v, <<>>, <<>>)]

\* response.content || ""
contentOrEmpty(r) == IF r.hasContent THEN r.content ELSE <<>>

\* Variant of the two pushes: the pair replaces the previous turn's pair
\* instead of following it (a transcript that forgets).
pushToolMessages_overwrite(messages, r, toolCall, toolContent) ==
  SubSeq(messages, 1, IF Len(messages) > 2 THEN Len(messages) - 2 ELSE Len(messages)) \o
  <<ChatMessage("assistant", contentOrEmpty(r), <<>>, <<toolCall>>),
    ChatMessage("tool", toolContent, toolCall.id, <<>>)>>

\* Variant of the two pushes: one assistant message for the whole turn,
\* carrying every tool call of the response, then the tool message.
pushToolMessages_wholeTurn(messages, r, toolCall, toolContent) ==
  messages \o
  <<ChatMessage("assistant", contentOrEmpty(r), <<>>, r.toolCalls),
    ChatMessage("tool", toolContent, toolCall.id, <<>>)>>

\* The two conversationMessages.push calls of one tool call (either branch of the try).
pushToolMessages(messages, r, toolCall, toolContent) ==
  messages \o
  <<ChatMessage("assistant", contentOrEmpty(r), <<>>, <<toolCall>>),
    ChatMessage("tool", toolContent, toolCall.id, <<>>)>>

\* Variant of the argument parsing: the catch hands on the raw string.
parseToolArgs_rawString(arguments) ==
  LET parsed == JSONParse(arguments) IN
  IF parsed.ok THEN parsed.val ELSE JStr(arguments)

\* JSON.parse(toolCall.function.arguments) with its catch: {} if it throws
parseToolArgs(arguments) ==
  LET parsed == JSONParse(arguments) IN
  IF parsed.ok THEN parsed.val ELSE JObj(<<>>)

\* JSON.stringify({ error: errorMessage })
toolErrorPayload(message) == Stringify(JObj(<<M("error", JStr(message))>>), FALSE)

\* Index of the first null element of an array (p.title on null throws), Len + 1 if none
FirstNull(arr) ==
  IF \E i \in 1..Len(arr) : arr[i].t = "null"
  THEN CHOOSE i \in 1..Len(arr) : arr[i].t = "null" /\ \A j \in 1..(i - 1) : arr[j].t # "null"
  ELSE Len(arr) + 1

\* a || b
OrElse(a, b) == IF Truthy(a) THEN a ELSE b

\* The cards the parsed tool result data contributes (ok: JSON.parse did not
\* throw): the body of the for loop of extractProjectCards, whose catch keeps
\* the cards pushed before a throw.
cardsOfData(ok, data) ==
  IF ~ok \/ data.t = "null" THEN <<>>
  ELSE
  LET projects == Get(data, "projects")
      isList == projects.t = "arr"
      n1 == IF isList THEN FirstNull(projects.v) ELSE 1
      listCards ==
        IF isList
        THEN [i \in 1..(n1 - 1) |->
                LET p == projects.v[i] IN
                JObj(<<M("title", Get(p, "title")), M("description", Get(p, "shortDescription")),
                       M("url", Get(p, "url")), M("metrics", Get(p, "metrics")),
                       M("tags", Get(p, "tags")), M("githubUrl", Get(p, "githubUrl")),
                       M("demoUrl", Get(p, "demoUrl"))>>)]
        ELSE <<>>
      threw1 == isList /\ n1 <= Len(projects.v)
      single ==
        IF Truthy(Get(data, "slug")) /\ Truthy(Get(data, "title")) /\ Truthy(Get(data, "url"))
        THEN <<JObj(<<M("title", Get(data, "title")),
                      M("description", OrElse(Get(data, "shortDescription"),
                                              Get(data, "description"))),
                      M("url", Get(data, "url")), M("metrics", Get(data, "metrics")),
                      M("tags", Get(data, "tags")), M("githubUrl", Get(data, "githubUrl")),
                      M("demoUrl", Get(data, "demoUrl"))>>)>>
        ELSE <<>>
      results == Get(data, "results")
      isSearch == results.t = "arr"
      n3 == IF isSearch THEN FirstNull(results.v) ELSE 1
      hits ==
        IF isSearch
        THEN SelectSeq(SubSeq(results.v, 1, n3 - 1),
                       LAMBDA r : StrictEq(Get(r, "type"), Str1("project")))
        ELSE <<>>
      searchCards ==
        [i \in 1..Len(hits) |->
           JObj(<<M("title", Get(hits[i], "title")), M("description", Get(hits[i], "snippet")),
                  M("url", Get(hits[i], "url"))>>)] IN
  IF threw1 THEN listCards ELSE listCards \o single \o searchCards

parsedCards(parsed) == cardsOfData(parsed.ok, parsed.val)

\* The cards one tool result contributes
cardsOfResult(result) == parsedCards(JSONParse(result))

\* Variant of the filter: of the cards that share a url the last one stays.
dedupByUrl_lastWins(cards) ==
  LET keep(i) == \A j \in (i + 1)..Len(cards) :
                   ~StrictEq(Get(cards[j], "url"), Get(cards[i], "url"))
      idx == SelectSeq([i \in 1..Len(cards) |-> i], keep) IN
  [i \in 1..Len(idx) |-> cards[idx[i]]]

\* The filter at the end of extractProjectCards: a Set of the urls seen
\* (strings by value, undefined equal to undefined, objects never equal).
dedupByUrl(cards) ==
  LET keep(i) == \A j \in 1..(i - 1) : ~StrictEq(Get(cards[j], "url"), Get(cards[i], "url"))
      idx == SelectSeq([i \in 1..Len(cards) |-> i], keep) IN
  [i \in 1..Len(idx) |-> cards[idx[i]]]

\* extractProjectCards(toolResults)
extractProjectCards(toolResults) ==
  dedupByUrl(Concat([i \in 1..Len(toolResults) |-> cardsOfResult(toolResults[i])]))

\* cards.length > 0 ? cards.slice(0, 5) : undefined
cardsField(cards) ==
  IF Len(cards) > 0
  THEN JArr(SubSeq(cards, 1, IF Len(cards) < MAX_CARDS THEN Len(cards) ELSE MAX_CARDS))
  ELSE JUndef

\* What NextResponse.json(body) puts on the wire, read back by the client.
Wire(body) == JSONParse(Stringify(body, FALSE)).val

HttpResponse(status, body, headers) ==
  [status |-> status, body |-> Wire(body), headers |-> headers]

NoResponse == [status |-> 0, body |-> JNull, headers |-> <<>>]

FALLBACK_ANSWER == <<"I apologize, but I'm having trouble processing your request. Could you try rephrasing your question?">>

GENERIC_ERROR == <<"An error occurred while processing your request.">>

RATE_LIMIT_ERROR == <<"Rate limit exceeded. Please try again later.">>

\* Variant of the final answer: cards from the last tool result only.
answerResponse_lastResult(r, toolResults, rl) ==
  HttpResponse(200, JObj(<<M("answer", JStr(r.content)),
                           M("cards", cardsField(extractProjectCards(
                              IF toolResults = <<>> THEN <<>>
                              ELSE <<toolResults[Len(toolResults)]>>)))>>),
               getRateLimitHeaders(rl.remaining, rl.resetAt))

\* The final answer of the loop (route.ts lines 224-231)
answerResponse(r, toolResults, rl) ==
  HttpResponse(200, JObj(<<M("answer", JStr(r.content)),
                           M("cards", cardsField(extractProjectCards(toolResults)))>>),
               getRateLimitHeaders(rl.remaining, rl.resetAt))

\* The answer after the loop: exhausted or stuck (route.ts lines 239-247)
fallbackResponse(rl) ==
  HttpResponse(200, JObj(<<M("answer", JStr(FALLBACK_ANSWER))>>),
               getRateLimitHeaders(rl.remaining, rl.resetAt))

\* Variant of the catch of POST: the error message is returned to the caller.
errorResponse_leaky(message) ==
  HttpResponse(500, JObj(<<M("error", JStr(message))>>), <<>>)

\* The catch of POST (route.ts lines 248-258): the error message is logged, not returned.
errorResponse(message) ==
  HttpResponse(500, JObj(<<M("error", JStr(GENERIC_ERROR))>>), <<>>)

(***************************************************************************)
(* Inputs: environments, disk states, requests and backend responses       *)
(***************************************************************************)
\* The clock may advance by at most MaxNow milliseconds during the request.
MaxNow == 1

\* A model turn carries at most MaxCalls native tool calls.
MaxCalls == 2

\* process.env: Gemini, OpenAI-compatible, HuggingFace, no API key, an API
\* key without a model (and Upstash configured).
Envs ==
  <<Env(TRUE, FALSE, FALSE, FALSE, FALSE),
    Env(FALSE, TRUE, FALSE, TRUE, TRUE),
    Env(FALSE, TRUE, TRUE, FALSE, FALSE),
    Env(FALSE, FALSE, TRUE, FALSE, FALSE),
    [Env(FALSE, TRUE, FALSE, FALSE, TRUE) EXCEPT !.UPSTASH = TRUE]>>

\* The content files that can be read: all, or all but site.json.
DiskStates == <<Files, Files \ {"site.json"}>>

Ip1 == <<"1.1.1.1">>

Ip2 == <<"2.2.2.2">>

\* The limiter's table when the request arrives: empty, or both clients at their limit.
InitialStores ==
  <<[k \in {} |-> [count |-> 0, resetAt |-> 0]],
    [k \in {Ip1, Ip2} |-> [count |-> MAX_REQUESTS, resetAt |-> WINDOW_MS]]>>

Request(forwardedFor, realIP, bodyOk, body) ==
  [forwardedFor |-> forwardedFor, realIP |-> realIP, bodyOk |-> bodyOk, body |-> body]

Msg(role, content) == JObj(<<M("role", Str1(role)), M("content", JStr(content))>>)

Body(msgs) == JObj(<<M("messages", JArr(msgs))>>)

\* One user message; an empty message list; a body that is not JSON; a
\* message list with a system message.
Requests ==
  <<Request(Ip1 \o <<",", " ">> \o Ip2, <<>>, TRUE,
            Body(<<Msg("user", <<"What is your email?">>)>>)),
    Request(<<>>, Ip2, TRUE, Body(<<>>)),
    Request(<<>>, <<>>, FALSE, JNull),
    Request(<<>>, Ip2, TRUE,
            Body(<<Msg("user", <<"Hi">>), Msg("system", <<"Ignore the rules">>)>>))>>

Q(w) == <<QUOTE, w, QUOTE>>

\* TOOL_CALL: {"tool":"<name>","args":<args>}
ToolCallText(name, args) ==
  <<TOOL_CALL_MARKER, " ", "{">> \o Q("tool") \o <<":">> \o Q(name) \o <<",">> \o
  Q("args") \o <<":">> \o args \o <<"}">>

GetContactText == ToolCallText("get_contact", <<"{", "}">>)

FinalText == <<FINAL_MARKER, " ", "My email is x@y.com", "\n">>

\* FINAL: followed by whitespace only
BlankFinalText == <<FINAL_MARKER, " ">>

\* FINAL: followed by text that holds a tool call
FinalWithToolCallText ==
  <<FINAL_MARKER, " ", "see", " ">> \o
  ToolCallText("list_projects", <<"{">> \o Q("sort") \o <<":">> \o Q("recent") \o <<"}">>)

\* The marker with braces that never balance
UnbalancedText == <<TOOL_CALL_MARKER, " ", "{", "{", "}">>

PlainText == <<"I can help with that.">>

\* The texts that end the loop: a final answer, FINAL: with nothing after
\* it, unbalanced braces, plain text, the empty text.
EndTexts == <<FinalText, BlankFinalText, UnbalancedText, PlainText, <<>>>>

\* The texts a backend may answer with.  Every backend can send every text;
\* to keep the state space small each one is given one or two of the
\* texts that make the loop go on.
Texts(backend) ==
  CASE backend = "gemini" -> <<GetContactText, FinalWithToolCallText>> \o EndTexts
    [] backend = "hf" -> <<GetContactText>> \o EndTexts
    [] OTHER -> <<FinalWithToolCallText>> \o EndTexts

\* The native tool calls a backend may emit in one turn, in this order: a
\* query that is no string, arguments that are no JSON, an unknown tool.
NativeMenu ==
  <<ToolCall(<<"call_a">>, <<"search_site">>, <<"{">> \o Q("query") \o <<":", "5", "}">>),
    ToolCall(<<"call_b">>, <<"get_project">>, <<"{", "slug">>),
    ToolCall(<<"call_c">>, <<"nosuch_tool">>, <<"{", "}">>)>>

Min(a, b) == IF a < b THEN a ELSE b

\* choices[0].message bodies: native tool calls with text, text only, nothing
MessageResponses(backend) ==
  <<RawResponse("message", <<"Let me check.">>, TRUE,
                SubSeq(NativeMenu, 1, Min(MaxCalls, Len(NativeMenu))), "tool_calls")>>
  \o [i \in 1..Len(Texts(backend)) |->
        RawResponse("message", Texts(backend)[i], TRUE, <<>>, "stop")]
  \o <<RawResponse("message", <<>>, FALSE, <<>>, "length")>>

FailureResponses ==
  <<RawResponse("http_error", <<"backend body text">>, TRUE, <<>>, "error"),
    RawResponse("no_choice", <<>>, FALSE, <<>>, "error")>>

\* What each backend can answer to one request.
BackendResponses(backend) ==
  CASE backend = "openai" -> FailureResponses \o MessageResponses(backend)
    [] backend = "hf" ->
         FailureResponses \o MessageResponses(backend) \o
         <<RawResponse("generated_text", FinalText, TRUE, <<>>, "stop"),
           RawResponse("generated_text", BlankFinalText, TRUE, <<>>, "stop")>>
    [] backend = "gemini" ->
         <<RawResponse("sdk_error", <<"sdk message">>, TRUE, <<>>, "error")>> \o
         [i \in 1..Len(Texts(backend)) |->
            RawResponse("text", Texts(backend)[i], TRUE, <<>>, "stop")]
    [] OTHER -> <<>>

\* What ratelimit.limit(identifier) of Upstash can answer: allow, deny, or throw.
(***************************************************************************)
(* MCP client over stdio (src/lib/mcp-client.ts)                           *)
(***************************************************************************)
\* The fields of class MCPClient; process 0 stands for null, another number
\* for the child process spawn() returned.
MCPClient(process, requestId, pendingRequests, buffer, initialized) ==
  [process |-> process, requestId |-> requestId, pendingRequests |-> pendingRequests,
   buffer |-> buffer, initialized |-> initialized]

\* new MCPClient()
NewClient == MCPClient(0, 0, {}, <<>>, FALSE)

\* No server process has been spawned.
NoServer == [spawned |-> 0, running |-> {}, stdout |-> <<>>, answered |-> {}]

RECURSIVE Split(_)
\* String.prototype.split("\n")
Split(s) ==
  LET i == IndexOf(s, "\n", 1) IN
  IF i = 0 THEN <<s>> ELSE <<SubSeq(s, 1, i - 1)>> \o Split(SubSeq(s, i + 1, Len(s)))

\* The number response.id of a parsed line, 0 if it is none the client has used
ResponseId(val, requestId) ==
  IF \E n \in 1..requestId : StrictEq(Get(val, "id"), JNum(<<ToString(n)>>))
  THEN CHOOSE n \in 1..requestId : StrictEq(Get(val, "id"), JNum(<<ToString(n)>>))
  ELSE 0

RECURSIVE forLines(_, _, _, _)
\* The for loop of processBuffer over the complete lines: the requests left
\* pending, and for each line that carried the id of a request whether it
\* found the request pending and how it settled it.
forLines(lines, pending, requestId, seen) ==
  IF lines = <<>> THEN [pendingRequests |-> pending, seen |-> seen]
  ELSE LET line == Head(lines)
           parsed == JSONParse(line)
           id == IF parsed.ok THEN ResponseId(parsed.val, requestId) ELSE 0 IN
       IF Trim(line) = <<>> \/ id = 0
       THEN forLines(Tail(lines), pending, requestId, seen)
       ELSE forLines(Tail(lines), pending \ {id}, requestId,
                     Append(seen, [id |-> id, pending |-> id \in pending,
                                   how |-> IF Truthy(Get(parsed.val, "error"))
                                           THEN "error" ELSE "result"]))

\* Variant of processBuffer: the text after the last line break is dropped.
processBuffer_dropsRest(c) ==
  LET lines == Split(c.buffer)
      done == forLines(SubSeq(lines, 1, Len(lines) - 1), c.pendingRequests, c.requestId, <<>>) IN
  [client |-> [c EXCEPT !.buffer = <<>>, !.pendingRequests = done.pendingRequests],
   seen |-> done.seen]

\* processBuffer(): the client after it and the lines it saw
processBuffer(c) ==
  LET lines == Split(c.buffer)
      done == forLines(SubSeq(lines, 1, Len(lines) - 1), c.pendingRequests, c.requestId, <<>>) IN
  [client |-> [c EXCEPT !.buffer = lines[Len(lines)], !.pendingRequests = done.pendingRequests],
   seen |-> done.seen]

\* What sendRequest writes to stdin, with the process it is written to and
\* the value of initialized at that time
Written(id, method, process, initialized) ==
  [id |-> id, method |-> method, process |-> process, initialized |-> initialized]

\* sendRequest(method) up to the promise it returns: it throws, or the
\* request is pending and written.
sendRequest(c, method) ==
  IF c.process = 0
  THEN [threw |-> TRUE, id |-> 0, client |-> c, written |-> <<>>]
  ELSE LET id == c.requestId + 1 IN
       [threw |-> FALSE, id |-> id,
        client |-> [c EXCEPT !.requestId = id, !.pendingRequests = @ \cup {id}],
        written |-> <<Written(id, method, c.process, c.initialized)>>]

\* An activation of listTools or callTool (method is its own request),
\* suspended at the await of the request id: at "initialize" or "notify"
\* inside initialize(), at "request" after connect().
Waiting(method, at, id) == [method |-> method, at |-> at, id |-> id]

\* The activation goes on to its next request, or ends if that throws.
nextRequest(c, method, at) ==
  LET r == sendRequest(c, method) IN
  [client |-> r.client, written |-> r.written,
   waiting |-> IF r.threw THEN {} ELSE {Waiting(IF at = "request" THEN method ELSE "", at, r.id)}]

\* listTools() / callTool() up to the first suspension: connect() returns at
\* once when this.process is set, else it takes the process spawn() returned
\* and calls initialize(), which returns at once when initialized is set.
invoke(c, method, spawned) ==
  IF c.process # 0 THEN nextRequest(c, method, "request")
  ELSE LET c1 == [c EXCEPT !.process = spawned] IN
       IF c1.initialized THEN nextRequest(c1, method, "request")
       ELSE LET r == nextRequest(c1, "initialize", "initialize") IN
            [r EXCEPT !.waiting = {[a EXCEPT !.method = method] : a \in r.waiting}]

\* The activation a after the promise it awaited settled (ok: resolved)
afterAwait(c, a, ok) ==
  IF ~ok \/ a.at = "request" THEN [client |-> c, written |-> <<>>, waiting |-> {}]
  ELSE IF a.at = "initialize"
  THEN LET r == nextRequest(c, "notifications/initialized", "notify") IN
       [r EXCEPT !.waiting = {[b EXCEPT !.method = a.method] : b \in r.waiting}]
  ELSE nextRequest([c EXCEPT !.initialized = TRUE], a.method, "request")

RECURSIVE afterAwaits(_, _, _, _)
\* The activations run in the order their promises settled.
afterAwaits(c, waiting, settled, written) ==
  IF settled = <<>> THEN [client |-> c, waiting |-> waiting, written |-> written]
  ELSE LET s == Head(settled)
           awaiting == {a \in waiting : a.id = s.id} IN
       IF awaiting = {} THEN afterAwaits(c, waiting, Tail(settled), written)
       ELSE LET a == CHOOSE a \in awaiting : TRUE
                r == afterAwait(c, a, s.how = "result") IN
            afterAwaits(r.client, (waiting \ {a}) \cup r.waiting, Tail(settled),
                        written \o r.written)

UpstashOutcomes == <<"allow", "deny", "error">>

(***************************************************************************)
(* State                                                                   *)
(***************************************************************************)
VARIABLES
  env,                   \* process.env
  disk,                  \* the readable content files
  now,                   \* Date.now()
  memoryStore,           \* rate-limit.ts memoryStore
  cache,                 \* mcp-tools.ts siteCache, resumeCache, projectsCache
  request,               \* the incoming request
  pc,                    \* where POST stands: start, parse, loop, chat, tools, done
  rateLimit,             \* POST rateLimit
  conversationMessages,  \* POST conversationMessages
  iterations,            \* POST iterations
  allToolResults,        \* POST allToolResults
  response,              \* POST response (the last ChatResponse)
  toolIndex,             \* position of the for loop in response.toolCalls
  httpResponse,          \* what POST returned
  chatCalls,             \* history: number of chat() invocations
  backendLog,            \* history: the backend's answers, in order
  toolLog,               \* history: the callTool invocations, in order
  applied,               \* a function called on its own: its arguments and its result
  suspended,             \* the activations suspended at an await, as a bag
  client,                \* mcp-client.ts: the fields of the MCPClient singleton
  server                 \* the MCP server processes and what they have written to stdout

vars ==
  <<env, disk, now, memoryStore, cache, request, pc, rateLimit, conversationMessages,
    iterations, allToolResults, response, toolIndex, httpResponse, chatCalls,
    backendLog, toolLog, applied, suspended, client, server>>

\* What a request leaves as it is
config == <<env, disk, request, applied, suspended, client, server>>

loopVars == <<conversationMessages, iterations, allToolResults, response, toolIndex>>

history == <<chatCalls, backendLog, toolLog>>

NoChatResponse == ChatResponse(<<>>, FALSE, <<>>, "stop")

\* No function has been called on its own.
NotApplied == [fn |-> "none"]

Init ==
  /\ applied = NotApplied
  /\ suspended = EmptyBag
  /\ client = NewClient
  /\ server = NoServer
  /\ \E i \in 1..Len(Envs) : env = Envs[i]
  /\ \E i \in 1..Len(DiskStates) : disk = DiskStates[i]
  /\ \E i \in 1..Len(InitialStores) : memoryStore = InitialStores[i]
  /\ \E i \in 1..Len(Requests) : request = Requests[i]
  /\ now = 0
  /\ cache = Caches(JNull, JNull, JNull)
  /\ pc = "start"
  /\ rateLimit = RateLimitResult(FALSE, 0, 0)
  /\ conversationMessages = <<>>
  /\ iterations = 0
  /\ allToolResults = <<>>
  /\ response = NoChatResponse
  /\ toolIndex = 0
  /\ httpResponse = NoResponse
  /\ chatCalls = 0
  /\ backendLog = <<>>
  /\ toolLog = <<>>

(***************************************************************************)
(* POST /api/chat, one step per action; the steps end where the handler    *)
(* awaits.                                                                 *)
(***************************************************************************)
\* Variant of the branching: content is tested before the tool calls.
decide_contentFirst(r) ==
  IF r.hasContent /\ r.content # <<>> THEN "answer"
  ELSE IF Len(r.toolCalls) > 0 THEN "tools"
  ELSE "break"

\* Variant of the branching: content is tested against null only, so the
\* empty string is an answer.
decide_notNull(r) ==
  IF Len(r.toolCalls) > 0 THEN "tools"
  ELSE IF r.hasContent THEN "answer"
  ELSE "break"

\* What the loop does with a ChatResponse (route.ts lines 170, 221, 235):
\* run its tool calls, return its content, or break.
decide(r) ==
  IF Len(r.toolCalls) > 0 THEN "tools"
  ELSE IF r.hasContent /\ r.content # <<>> THEN "answer"
  ELSE "break"

\* Variant of the for loop body without the try around callTool: what the
\* tool throws leaves the loop.
toolCallOutcome_uncaught(toolArgs, out) ==
  [args |-> toolArgs, out |-> out, escapes |-> out.threw,
   content |-> IF out.threw THEN toolErrorPayload(out.error) ELSE out.result]

\* The outcome of one pass of the for loop body (route.ts lines 181-214),
\* given the arguments used and what callTool did: the content of the tool
\* message, and whether an exception leaves the loop (none does: both try
\* blocks catch everything).
toolCallOutcome(toolArgs, out) ==
  [args |-> toolArgs, out |-> out, escapes |-> FALSE,
   content |-> IF out.threw THEN toolErrorPayload(out.error) ELSE out.result]

callWithArgs(toolCall, toolArgs, c, d) ==
  toolCallOutcome(toolArgs, callTool(toolCall.name, toolArgs, c, d))

\* One pass of the for loop body (route.ts lines 172-214) for toolCall, with
\* the caches c and the readable files d.
executeToolCall(toolCall, c, d) ==
  callWithArgs(toolCall, parseToolArgs(toolCall.arguments), c, d)

Respond(r) ==
  /\ httpResponse' = r
  /\ pc' = "done"

\* await checkRateLimit(clientIP), and the 429 (route.ts lines 119-131)
RateLimit ==
  /\ pc = "start"
  /\ \E o \in 1..Len(UpstashOutcomes) :
       LET upstash == env.UPSTASH /\ UpstashOutcomes[o] # "error"
           mem == checkRateLimit(memoryStore, getClientIP(request), now)
           rl == IF upstash
                 THEN RateLimitResult(UpstashOutcomes[o] = "allow",
                                      IF UpstashOutcomes[o] = "allow" THEN MAX_REQUESTS - 1 ELSE 0,
                                      now + WINDOW_MS)
                 ELSE mem.result IN
       /\ env.UPSTASH \/ UpstashOutcomes[o] = "error"
       /\ rateLimit' = rl
       /\ memoryStore' = IF upstash THEN memoryStore ELSE mem.store
       /\ IF rl.allowed
          THEN pc' = "parse" /\ UNCHANGED httpResponse
          ELSE Respond(HttpResponse(429, JObj(<<M("error", JStr(RATE_LIMIT_ERROR))>>),
                                    getRateLimitHeaders(rl.remaining, rl.resetAt)))
  /\ UNCHANGED <<config, now, cache, loopVars, history>>

\* await request.json(), the schema check and the start of the loop (route.ts lines 135-161)
ParseRequest ==
  /\ pc = "parse"
  /\ IF ~request.bodyOk
     THEN /\ Respond(errorResponse(<<"Unexpected token in JSON">>))
          /\ UNCHANGED conversationMessages
     ELSE IF ~requestSchemaOk(request.body)
     THEN /\ Respond(HttpResponse(400, JObj(<<M("error", Str1("Invalid request")),
                                              M("details", JArr(<<Str1("issue")>>))>>), <<>>))
          /\ UNCHANGED conversationMessages
     ELSE /\ conversationMessages' = initialConversation(request.body)
          /\ pc' = "loop"
          /\ UNCHANGED httpResponse
  /\ UNCHANGED <<config, now, memoryStore, cache, rateLimit, iterations, allToolResults,
                 response, toolIndex, history>>

\* The while test holds: iterations++ and chat() is called (route.ts lines 163-167).
\* Without its configuration chat() throws before any request is sent.
CallModel ==
  /\ pc = "loop"
  /\ iterations < MAX_TOOL_ITERATIONS
  /\ iterations' = iterations + 1
  /\ chatCalls' = chatCalls + 1
  /\ IF Backend(env) = "none"
     THEN /\ response' = chat(env, RawResponse("none", <<>>, FALSE, <<>>, "error"), now)
          /\ Respond(errorResponse(response'.error))
     ELSE /\ pc' = "chat"
          /\ UNCHANGED <<response, httpResponse>>
  /\ UNCHANGED <<config, now, memoryStore, cache, rateLimit, conversationMessages,
                 allToolResults, toolIndex, backendLog, toolLog>>

\* The while test fails: the fallback after the loop (route.ts lines 238-247)
Exhausted ==
  /\ pc = "loop"
  /\ ~(iterations < MAX_TOOL_ITERATIONS)
  /\ Respond(fallbackResponse(rateLimit))
  /\ UNCHANGED <<config, now, memoryStore, cache, rateLimit, loopVars, history>>

\* The loop after chat() has turned the backend's answer raw into r
\* (route.ts lines 167-170, 220-236, 248-258).
Receive(raw, r) ==
  /\ backendLog' = Append(backendLog, raw)
  /\ response' = r
  /\ IF r.threw
     THEN Respond(errorResponse(r.error)) /\ UNCHANGED toolIndex
     ELSE IF decide(r) = "tools"
     THEN pc' = "tools" /\ toolIndex' = 1 /\ UNCHANGED httpResponse
     ELSE IF decide(r) = "answer"
     THEN Respond(answerResponse(r, allToolResults, rateLimit)) /\ UNCHANGED toolIndex
     ELSE Respond(fallbackResponse(rateLimit)) /\ UNCHANGED toolIndex

Answer(raw, t) == Receive(raw, chat(env, raw, t))

\* The backend answers after dt milliseconds; chat() normalizes the answer
\* or throws, and the loop branches on it.
ModelResponds ==
  /\ pc = "chat"
  /\ \E i \in 1..Len(BackendResponses(Backend(env))), dt \in 0..(MaxNow - now) :
       /\ now' = now + dt
       /\ Answer(BackendResponses(Backend(env))[i], now + dt)
  /\ UNCHANGED <<config, memoryStore, cache, rateLimit, conversationMessages, iterations,
                 allToolResults, chatCalls, toolLog>>

\* Variant of the for loop: it is left after its first pass.
Executed_firstOnly(toolCall, e) ==
  /\ cache' = e.out.c
  /\ toolLog' = Append(toolLog, [id |-> toolCall.id, name |-> toolCall.name,
                                 args |-> e.args, threw |-> e.out.threw,
                                 content |-> e.content])
  /\ allToolResults' = IF e.out.threw THEN allToolResults
                       ELSE Append(allToolResults, e.out.result)
  /\ conversationMessages' =
       pushToolMessages(conversationMessages, response, toolCall, e.content)
  /\ toolIndex' = 0 /\ pc' = "loop"
  /\ UNCHANGED httpResponse

\* The for loop after one pass e over toolCall: the two messages are
\* pushed, and after the last call the while loop continues.
Executed(toolCall, e) ==
  /\ cache' = e.out.c
  /\ toolLog' = Append(toolLog, [id |-> toolCall.id, name |-> toolCall.name,
                                 args |-> e.args, threw |-> e.out.threw,
                                 content |-> e.content])
  /\ IF e.escapes
     THEN /\ Respond(errorResponse(e.out.error))
          /\ UNCHANGED <<conversationMessages, allToolResults, toolIndex>>
     ELSE /\ allToolResults' = IF e.out.threw THEN allToolResults
                               ELSE Append(allToolResults, e.out.result)
          /\ conversationMessages' =
               pushToolMessages(conversationMessages, response, toolCall, e.content)
          /\ IF toolIndex < Len(response.toolCalls)
             THEN toolIndex' = toolIndex + 1 /\ pc' = "tools"
             ELSE toolIndex' = 0 /\ pc' = "loop"
          /\ UNCHANGED httpResponse

\* One pass of the for loop over response.toolCalls (route.ts lines 171-218)
ExecuteToolCall ==
  /\ pc = "tools"
  /\ Executed(response.toolCalls[toolIndex],
              executeToolCall(response.toolCalls[toolIndex], cache, disk))
  /\ UNCHANGED <<config, now, memoryStore, rateLimit, iterations, response, chatCalls,
                 backendLog>>

Next ==
  \/ RateLimit
  \/ ParseRequest
  \/ CallModel
  \/ Exhausted
  \/ ModelResponds
  \/ ExecuteToolCall

Spec == Init /\ [][Next]_vars


(***************************************************************************)
(* Properties of the tool loop of POST /api/chat                           *)
(***************************************************************************)
IsPrefix(s, t) == Len(s) <= Len(t) /\ SubSeq(t, 1, Len(s)) = s

\* The ChatResponse carries at least one tool call / a non-empty content.
HasToolCalls(r) == ~r.threw /\ Len(r.toolCalls) > 0

HasText(r) == ~r.threw /\ r.hasContent /\ r.content # <<>>

\* The backend's i-th answer of this request, normalized, carries a tool call.
CarriesToolCall(i) == HasToolCalls(chat(env, backendLog[i], 0))

\* The response variable holds the answer to the latest backend call.
Received == backendLog # <<>> /\ Len(backendLog) = chatCalls

Status == httpResponse.status

AnswerText == Get(httpResponse.body, "answer")

NoCards == Get(httpResponse.body, "cards").t = "undef"

\* The cards that the accumulated tool results would give
AccumulatedCards == extractProjectCards(allToolResults)

FiveToolTurns ==
  /\ Len(backendLog) = 5
  /\ \A i \in 1..5 : CarriesToolCall(i)

\* C1: a request makes at most five backend calls; when each of the first
\* five responses carries a tool call, the request ends after exactly five
\* backend calls with status 200, the fallback answer and no cards.
C1_AtMostFiveBackendCalls ==
  /\ chatCalls <= 5
  /\ Len(backendLog) <= 5
  /\ FiveToolTurns =>
       /\ chatCalls = 5
       /\ pc \in {"tools", "loop", "done"}
       /\ pc = "done" =>
            /\ Status = 200
            /\ AnswerText.t = "str" /\ AnswerText.v = FALLBACK_ANSWER
            /\ NoCards

\* Five tool turns have ended the request, with tool results that hold cards.
C1_Witness ==
  /\ pc = "done"
  /\ FiveToolTurns
  /\ Status = 200
  /\ Len(toolLog) >= 5
  /\ Len(AccumulatedCards) > 0

\* The tool calls of the current turn that have been processed
TurnDone ==
  IF pc = "tools" THEN toolIndex - 1
  ELSE IF pc = "loop" /\ Received /\ HasToolCalls(response) THEN Len(response.toolCalls)
  ELSE 0

\* The j-th processed call of the turn sits where the loop put it: its
\* assistant and tool message at the end of the transcript, its invocation
\* at the end of the log, each in the position the response gave the call.
InEmittedOrder(j) ==
  LET a == Len(conversationMessages) - 2 * TurnDone + 2 * j - 1
      l == Len(toolLog) - TurnDone + j IN
  /\ a >= 1 /\ l >= 1
  /\ conversationMessages[a].tool_calls = <<response.toolCalls[j]>>
  /\ conversationMessages[a + 1].tool_call_id = response.toolCalls[j].id
  /\ toolLog[l].id = response.toolCalls[j].id
  /\ toolLog[l].name = response.toolCalls[j].name

TurnInOrder == \A j \in 1..TurnDone : InEmittedOrder(j)

\* C2: the transcript only grows at its end, no message in it is removed,
\* changed or reordered, and the tool calls of a response are executed and
\* recorded in the order the response gave them.
C2_TranscriptAppendOnly ==
  /\ [][IsPrefix(conversationMessages, conversationMessages')]_vars
  /\ []TurnInOrder

\* A turn of two tool calls has been processed, after an earlier turn.
C2_Witness ==
  /\ pc = "loop"
  /\ TurnDone = 2
  /\ Len(toolLog) >= 3
  /\ response.toolCalls[1].id # response.toolCalls[2].id

\* The call processed by a step that invokes a tool
CurrentCall == response.toolCalls[toolIndex]

\* A step has processed CurrentCall: exactly two messages were appended,
\* the assistant message holding that one call, then the tool message
\* naming its id.
TwoMessagesAppended ==
  LET n == Len(conversationMessages) IN
  /\ Len(conversationMessages') = n + 2
  /\ conversationMessages'[n + 1].role = "assistant"
  /\ conversationMessages'[n + 1].tool_calls = <<CurrentCall>>
  /\ conversationMessages'[n + 2].role = "tool"
  /\ conversationMessages'[n + 2].tool_call_id = CurrentCall.id

\* Every tool message directly follows the assistant message of its call.
ToolMessagesPaired ==
  \A i \in 1..Len(conversationMessages) :
    conversationMessages[i].role = "tool" =>
      /\ i > 1
      /\ conversationMessages[i - 1].role = "assistant"
      /\ Len(conversationMessages[i - 1].tool_calls) = 1
      /\ conversationMessages[i - 1].tool_calls[1].id = conversationMessages[i].tool_call_id

\* C3: each processed tool call, whether its handler returns or throws,
\* appends exactly two messages, the assistant message with that single
\* call and then the tool message with its id, so every tool message
\* directly follows the assistant message declaring the same call.
C3_TwoMessagesPerToolCall ==
  /\ [][toolLog' # toolLog => TwoMessagesAppended]_vars
  /\ []ToolMessagesPaired

\* Both a call that threw and a call that returned are in the transcript.
C3_Witness ==
  /\ \E i \in 1..Len(toolLog) : toolLog[i].threw
  /\ \E i \in 1..Len(toolLog) : ~toolLog[i].threw
  /\ Len(conversationMessages) >= 2 + 2 * Len(toolLog)
  /\ conversationMessages[Len(conversationMessages)].role = "tool"

\* A step has invoked a tool and the tool threw.
ToolThrew == toolLog' # toolLog /\ toolLog'[Len(toolLog')].threw

\* The content of the message a step appended last
AppendedContent == conversationMessages'[Len(conversationMessages')].content

\* The error object of a tool message content: exactly { error: <string> }
IsErrorPayload(parsed, message) ==
  /\ parsed.ok
  /\ parsed.val.t = "obj"
  /\ Len(parsed.val.v) = 1
  /\ Get(parsed.val, "error").t = "str"
  /\ Get(parsed.val, "error").v = message

\* After a tool call the for loop goes on with the next call of the turn,
\* and after the last one the while loop goes on; no response is sent.
LoopGoesOn ==
  /\ httpResponse' = NoResponse
  /\ iterations' = iterations
  /\ IF toolIndex < Len(response.toolCalls)
     THEN pc' = "tools" /\ toolIndex' = toolIndex + 1
     ELSE pc' = "loop"

ThrowIsReported ==
  /\ Len(conversationMessages') = Len(conversationMessages) + 2
  /\ conversationMessages'[Len(conversationMessages')].role = "tool"
  /\ IsErrorPayload(JSONParse(AppendedContent),
                    callTool(CurrentCall.name, toolLog'[Len(toolLog')].args, cache, disk).error)
  /\ LoopGoesOn

\* A 500 comes from the gateway or from reading the body, never from a tool.
ServerErrorCause == Status = 500 => response.threw \/ ~request.bodyOk

\* When a tool turn is over every call of the turn has been invoked.
TurnComplete ==
  pc = "loop" /\ Received /\ HasToolCalls(response) =>
    /\ Len(toolLog) >= Len(response.toolCalls)
    /\ \A j \in 1..Len(response.toolCalls) :
         toolLog[Len(toolLog) - Len(response.toolCalls) + j].id = response.toolCalls[j].id

\* C4: when a tool handler throws, the request does not fail: a tool
\* message whose content is the JSON object {error: <message>} is appended,
\* the remaining tool calls of the turn are still executed, the loop goes
\* on, and no request ends with status 500 because of a tool exception.
C4_ToolExceptionIsCaught ==
  /\ [][ToolThrew => ThrowIsReported]_vars
  /\ []ServerErrorCause
  /\ []TurnComplete

\* The first call of a turn threw, the second was executed, and the next
\* model call has been made.
C4_Witness ==
  /\ pc = "chat"
  /\ chatCalls >= 2
  /\ Len(toolLog) >= 2
  /\ toolLog[1].threw
  /\ toolLog[2].id # toolLog[1].id
  /\ Status = 0

\* A step has processed a call whose arguments are no JSON.
UnparseableInvoked == toolLog' # toolLog /\ ~JSONParse(CurrentCall.arguments).ok

\* The content of the tool message for the outcome out of callTool
ContentFor(out) == IF out.threw THEN toolErrorPayload(out.error) ELSE out.result

InvokedOnceWithEmptyObject ==
  /\ Len(toolLog') = Len(toolLog) + 1
  /\ toolLog'[Len(toolLog')].name = CurrentCall.name
  /\ toolLog'[Len(toolLog')].args.t = "obj"
  /\ toolLog'[Len(toolLog')].args.v = <<>>
  /\ Len(conversationMessages') = Len(conversationMessages) + 2
  /\ conversationMessages'[Len(conversationMessages')].tool_call_id = CurrentCall.id
  /\ AppendedContent = ContentFor(callTool(CurrentCall.name, JObj(<<>>), cache, disk))
  /\ LoopGoesOn

\* C5: a tool call whose arguments string is not valid JSON is not
\* rejected: the tool is invoked exactly once with the empty object and
\* its result is appended like any other.
C5_UnparseableArgumentsBecomeEmptyObject ==
  [][UnparseableInvoked => InvokedOnceWithEmptyObject]_vars

\* The transcript holds a call with unparseable arguments and its tool message.
C5_Witness ==
  \E i \in 1..Len(conversationMessages) :
    /\ conversationMessages[i].role = "assistant"
    /\ Len(conversationMessages[i].tool_calls) = 1
    /\ ~JSONParse(conversationMessages[i].tool_calls[1].arguments).ok
    /\ i < Len(conversationMessages)
    /\ conversationMessages[i + 1].role = "tool"
    /\ \E l \in 1..Len(toolLog) :
         /\ toolLog[l].id = conversationMessages[i].tool_calls[1].id
         /\ toolLog[l].args.t = "obj"

\* The latest backend call failed.
BackendFailed == Received /\ response.threw

GenericErrorOnly ==
  /\ Status = 500
  /\ Stringify(httpResponse.body, FALSE) =
       Stringify(JObj(<<M("error", JStr(GENERIC_ERROR))>>), FALSE)
  /\ AnswerText.t = "undef"
  /\ NoCards

\* C6: when a backend call fails the request makes no further backend call
\* and no further tool invocation, and ends with status 500 and a body that
\* holds the generic error text only: no answer, no cards, nothing of the
\* backend's status or body.
C6_BackendFailureEndsRequest ==
  /\ [](BackendFailed => pc = "done" /\ GenericErrorOnly)
  /\ [][BackendFailed => UNCHANGED <<chatCalls, backendLog, toolLog>>]_vars

\* A backend call failed after a tool turn.
C6_Witness ==
  /\ BackendFailed
  /\ Len(backendLog) >= 2
  /\ Len(toolLog) >= 1
  /\ response.error # <<>>
  /\ Status = 500

\* The latest backend response is a final answer: content, no tool calls.
IsAnswer == Received /\ HasText(response) /\ ~HasToolCalls(response)

CardsOnWire == Get(httpResponse.body, "cards")

\* The cards of the response are the first five of the accumulated ones.
CardsAsExtracted(cards) ==
  IF Len(cards) = 0 THEN NoCards
  ELSE /\ CardsOnWire.t = "arr"
       /\ Len(CardsOnWire.v) = Min(5, Len(cards))
       /\ \A i \in 1..Len(CardsOnWire.v) :
            Stringify(CardsOnWire.v[i], FALSE) = Stringify(cards[i], FALSE)

\* C7: a response with non-empty content and no tool calls stops the loop
\* at that iteration: status 200, that content as the answer, and the
\* cards extracted from all tool results accumulated so far, never more
\* than five.
C7_ContentEndsLoop ==
  IsAnswer =>
    /\ pc = "done"
    /\ Status = 200
    /\ AnswerText.t = "str" /\ AnswerText.v = response.content
    /\ CardsAsExtracted(AccumulatedCards)
    /\ CardsOnWire.t = "arr" => Len(CardsOnWire.v) <= 5

\* An answer came with a card, after two tool results of which the last holds none.
C7_Witness ==
  /\ IsAnswer
  /\ Status = 200
  /\ CardsOnWire.t = "arr"
  /\ Len(allToolResults) >= 2
  /\ Len(cardsOfResult(allToolResults[Len(allToolResults)])) = 0

\* The latest backend response has neither tool calls nor content.
IsEmptyResponse ==
  Received /\ ~response.threw /\ ~HasToolCalls(response) /\ ~HasText(response)

\* C8: a response with neither tool calls nor non-empty content stops the
\* loop at once: status 200 with the fallback answer and no cards, whatever
\* tool results have accumulated.
C8_EmptyResponseEndsLoop ==
  IsEmptyResponse =>
    /\ pc = "done"
    /\ Status = 200
    /\ AnswerText.t = "str" /\ AnswerText.v = FALLBACK_ANSWER
    /\ NoCards

\* An empty response ended a request whose tool results hold a card.
C8_Witness ==
  /\ IsEmptyResponse
  /\ pc = "done"
  /\ Len(AccumulatedCards) > 0
  /\ chatCalls < 5

\* The latest backend response has tool calls and content.
IsBoth == Received /\ HasToolCalls(response) /\ HasText(response)

\* The step that receives a response with tool calls and content
ReceivesBoth ==
  backendLog' # backendLog /\ HasToolCalls(response') /\ HasText(response')

\* C9: a response with both tool calls and content is a tool turn: its tool
\* calls are executed, the loop goes on, and its content is never the
\* final answer.
C9_ToolCallsBeforeContent ==
  /\ [][ReceivesBoth => pc' = "tools" /\ toolIndex' = 1 /\ httpResponse' = NoResponse]_vars
  /\ [](IsBoth => pc \in {"tools", "loop", "done"})
  /\ [](IsBoth /\ pc = "done" =>
          /\ iterations = 5
          /\ Len(toolLog) >= Len(response.toolCalls)
          /\ AnswerText.v # response.content)

\* A response with tool calls and content was followed by its tool calls,
\* and the loop is back at its head with iterations left.
C9_Witness ==
  /\ IsBoth
  /\ pc = "loop"
  /\ iterations < 5
  /\ Len(toolLog) >= Len(response.toolCalls)
  /\ Status = 0

\* The backend's answer is a text, without native tool calls.
IsTextResponse(raw) ==
  /\ raw.kind \in {"message", "generated_text", "text"}
  /\ raw.tool_calls = <<>>
  /\ raw.hasContent

\* The backend's answer is the text FINAL: <text>
IsFinalResponse(raw) ==
  /\ IsTextResponse(raw)
  /\ Len(raw.content) >= 1
  /\ raw.content[1] = FINAL_MARKER

\* The first answer was TOOL_CALL: {"tool":"get_contact","args":{}} and the
\* second FINAL: <text>.
ContactThenFinal ==
  /\ Len(backendLog) >= 2
  /\ IsTextResponse(backendLog[1])
  /\ backendLog[1].content = GetContactText
  /\ IsFinalResponse(backendLog[2])

\* <text> of the second answer
SecondText == Tail(backendLog[2].content)

\* Two backend calls, one get_contact invocation, 200 with <text> trimmed, no cards.
TwoCallsOneContact ==
  /\ pc = "done"
  /\ chatCalls = 2
  /\ Len(backendLog) = 2
  /\ Len(toolLog) = 1
  /\ toolLog[1].name = <<"get_contact">>
  /\ Status = 200
  /\ AnswerText.t = "str" /\ AnswerText.v = Trim(SecondText)
  /\ NoCards

\* <text> has a character that is no whitespace, and no TOOL_CALL: marker
\* that the gateway reads as a tool call.
ProperFinalText ==
  /\ Trim(SecondText) # <<>>
  /\ ~parseFallbackToolCall(backendLog[2].content, 0).found

\* C10: with a backend whose first answer is the text
\* TOOL_CALL: {"tool":"get_contact","args":{}} and whose second answer is
\* FINAL: <text>, where <text> has a non-whitespace character and holds no
\* tool call, the request makes exactly two backend calls and one
\* get_contact invocation and ends with status 200, <text> trimmed as the
\* answer and no cards.
C10_EndToEnd == ContactThenFinal /\ ProperFinalText => TwoCallsOneContact

\* The scenario has run to its end.
C10_Witness ==
  /\ ContactThenFinal
  /\ ProperFinalText
  /\ pc = "done"
  /\ Len(toolLog) = 1
  /\ ~toolLog[1].threw
  /\ Status = 200

\* C10 as stated, for every <text>: the same outcome.
C10_AnyFinalText == ContactThenFinal => TwoCallsOneContact

(***************************************************************************)
(* The tool registry on its own: callTool applied to names and arguments   *)
(***************************************************************************)
\* A projects.json holds at most MaxProjects projects.
MaxProjects == 3

\* The variables of the request handler
requestVars ==
  <<request, now, memoryStore, pc, rateLimit, conversationMessages, iterations,
    allToolResults, response, toolIndex, httpResponse, chatCalls, backendLog, toolLog,
    suspended, client, server>>

\* POST is not running.
HandlerIdle ==
  /\ request = Requests[1]
  /\ now = 0
  /\ memoryStore = InitialStores[1]
  /\ pc = "start"
  /\ rateLimit = RateLimitResult(FALSE, 0, 0)
  /\ conversationMessages = <<>>
  /\ iterations = 0
  /\ allToolResults = <<>>
  /\ response = NoChatResponse
  /\ toolIndex = 0
  /\ httpResponse = NoResponse
  /\ chatCalls = 0
  /\ backendLog = <<>>
  /\ toolLog = <<>>

\* No request is being handled.
NoRequest ==
  /\ suspended = EmptyBag
  /\ client = NewClient
  /\ server = NoServer
  /\ HandlerIdle

SlugNames == <<"moa", "rag", "ops", "bot", "viz", "etl">>

\* The featured flags of the projects of a projects.json, in file order
FeaturedFlags == UNION {[1..n -> BOOLEAN] : n \in 0..Min(MaxProjects, Len(SlugNames))}

\* The i-th project of such a file: dates and tags alternate along the list.
NthProject(i, featured) ==
  Project(SlugNames[i], "Project", IF i % 2 = 1 THEN <<"NLP">> ELSE <<"RAG", "LLM">>,
          featured, IF i % 2 = 1 THEN "2024-06" ELSE "2023-01")

\* projectsCache after projects.json with these projects has been read
LoadedProjects(flags) ==
  JObj(<<M("projects", JArr([i \in 1..Len(flags) |-> NthProject(i, flags[i])]))>>)

\* The tool names callTool is given: the six of the catalog and three others.
ToolNames ==
  [i \in 1..Len(toolDefinitions) |-> <<toolDefinitions[i]>>] \o
  <<<<"nosuch_tool">>, <<"Get_Contact">>, <<>>>>

\* The arguments callTool is given
ToolArgs ==
  <<JObj(<<>>), JUndef, JNull,
    JObj(<<M("query", Str1("rag"))>>), JObj(<<M("query", JNum(<<"5">>))>>),
    JObj(<<M("query", JStr(<<>>))>>),
    JObj(<<M("slug", Str1("rag"))>>), JObj(<<M("slug", Str1("nope"))>>),
    JObj(<<M("slug", JStr(<<>>))>>), JObj(<<M("slug", JNum(<<"7">>))>>),
    JObj(<<M("section", Str1("summary"))>>), JObj(<<M("section", Str1("experience"))>>),
    JObj(<<M("section", Str1("education"))>>), JObj(<<M("section", Str1("hobbies"))>>),
    JObj(<<M("sort", Str1("impact"))>>), JObj(<<M("sort", Str1("recent"))>>),
    JObj(<<M("sort", Str1("alphabetical"))>>),
    JObj(<<M("tag", Str1("nlp"))>>),
    JObj(<<M("tag", Str1("LLM")), M("sort", Str1("impact"))>>)>>

ToolInit ==
  /\ NoRequest
  /\ env = Envs[1]
  /\ applied = NotApplied
  /\ \E i \in 1..Len(DiskStates) : disk = DiskStates[i]
  /\ \/ cache = Caches(JNull, JNull, JNull)
     \/ \E flags \in FeaturedFlags : cache = Caches(JNull, JNull, LoadedProjects(flags))

\* callTool(name, args) has returned or thrown out; before are the caches it found.
Invoked(name, args, before, out) ==
  /\ applied' = [fn |-> "callTool", name |-> name, args |-> args, before |-> before,
                 threw |-> out.threw, error |-> out.error, result |-> out.result]
  /\ cache' = out.c

\* callTool is called on caches as the process start or clearCache left them.
InvokeTool ==
  /\ applied.fn # "callTool"
  /\ \E n \in 1..Len(ToolNames), a \in 1..Len(ToolArgs) :
       Invoked(ToolNames[n], ToolArgs[a], cache, callTool(ToolNames[n], ToolArgs[a], cache, disk))
  /\ UNCHANGED <<requestVars, env, disk>>

\* clearCache() (mcp-tools.ts lines 407-411)
ClearCache ==
  /\ applied.fn = "callTool"
  /\ cache' = Caches(JNull, JNull, JNull)
  /\ applied' = [fn |-> "clearCache"]
  /\ UNCHANGED <<requestVars, env, disk>>

ToolNext ==
  \/ InvokeTool
  \/ ClearCache

ToolSpec == ToolInit /\ [][ToolNext]_vars

\* callTool has been applied.
ToolApplied == applied.fn = "callTool"

\* The names of the catalog
Catalog == {<<toolDefinitions[i]>> : i \in 1..Len(toolDefinitions)}

\* The tool result read back as JSON
ResultJson == JSONParse(applied.result)

\* The call returned a JSON object with an error key.
ReturnedError ==
  /\ ~applied.threw
  /\ ResultJson.ok
  /\ ResultJson.val.t = "obj"
  /\ HasKey(ResultJson.val, <<"error">>)

\* The call returned a JSON object without an error key.
ReturnedData ==
  /\ ~applied.threw
  /\ ResultJson.ok
  /\ ResultJson.val.t = "obj"
  /\ ~HasKey(ResultJson.val, <<"error">>)

\* C11: the catalog is exactly the six tools search_site, list_projects,
\* get_project, get_skills, get_resume_section and get_contact, and callTool
\* with a name outside it, whatever the arguments, returns a JSON object
\* with an error key and does not throw.
C11_UnknownToolReturnsError ==
  /\ Len(toolDefinitions) = 6
  /\ Catalog = {<<"search_site">>, <<"list_projects">>, <<"get_project">>, <<"get_skills">>,
                <<"get_resume_section">>, <<"get_contact">>}
  /\ ToolApplied /\ applied.name \notin Catalog => ReturnedError

\* A name outside the catalog has been called with arguments.
C11_Witness ==
  /\ ToolApplied
  /\ applied.name = <<"nosuch_tool">>
  /\ applied.args.t = "obj"
  /\ Len(applied.args.v) > 0
  /\ ReturnedError

\* The project list the call worked on: the cached one, else the file's
ProjectsSeen == getProjects(applied.before, disk).val.v

\* The slugs of a project list, in list order
SlugsOf(projects) == [i \in 1..Len(projects) |-> Get(projects[i], "slug").v]

\* The projects of the list whose slug is the one asked for
Matching(projects, slug) == SelectSeq(projects, LAMBDA pr : StrictEq(Get(pr, "slug"), slug))

\* get_project has been called with a non-empty slug.
GetProjectApplied ==
  /\ ToolApplied
  /\ applied.name = <<"get_project">>
  /\ Truthy(Get(applied.args, "slug"))

AvailableSlugs == Get(ResultJson.val, "availableSlugs")

NotFoundPayload ==
  /\ ReturnedError
  /\ AvailableSlugs.t = "arr"
  /\ [i \in 1..Len(AvailableSlugs.v) |-> AvailableSlugs.v[i].v] = SlugsOf(ProjectsSeen)

FoundRecord(found) ==
  /\ ReturnedData
  /\ Stringify(ResultJson.val, FALSE) = Stringify(found[1], FALSE)

\* C12: get_project with a non-empty slug that matches no project returns
\* an error payload whose availableSlugs are the slugs of all projects in
\* list order; with a slug that matches it returns that project's record,
\* without an error key.
C12_GetProjectBySlug ==
  GetProjectApplied =>
    IF Matching(ProjectsSeen, Get(applied.args, "slug")) = <<>>
    THEN NotFoundPayload
    ELSE FoundRecord(Matching(ProjectsSeen, Get(applied.args, "slug")))

\* A slug that matches none of at least two projects has been asked for.
C12_Witness ==
  /\ GetProjectApplied
  /\ Len(ProjectsSeen) >= 2
  /\ Matching(ProjectsSeen, Get(applied.args, "slug")) = <<>>
  /\ NotFoundPayload

\* list_projects has returned with sort = impact, given or by default.
ImpactApplied ==
  /\ ToolApplied
  /\ applied.name = <<"list_projects">>
  /\ ~applied.threw
  /\ \/ ~Truthy(Get(applied.args, "sort"))
     \/ StrictEq(Get(applied.args, "sort"), Str1("impact"))

\* The projects of the listing
Listed == Get(ResultJson.val, "projects").v

IsFeatured(p) == StrictEq(Get(p, "featured"), JBool(TRUE))

IsListed(p) == \E i \in 1..Len(Listed) : StrictEq(Get(Listed[i], "slug"), Get(p, "slug"))

\* No project that is not featured comes before a featured one.
FeaturedFirst ==
  \A i \in 1..Len(Listed) : \A j \in (i + 1)..Len(Listed) :
    ~(~IsFeatured(Listed[i]) /\ IsFeatured(Listed[j]))

\* The featured projects of the listing are those of the project list, in
\* the order of the list, and so are the others.
GroupsKeepOrder ==
  /\ SlugsOf(SelectSeq(Listed, IsFeatured)) =
       SlugsOf(SelectSeq(ProjectsSeen, LAMBDA p : IsFeatured(p) /\ IsListed(p)))
  /\ SlugsOf(SelectSeq(Listed, LAMBDA p : ~IsFeatured(p))) =
       SlugsOf(SelectSeq(ProjectsSeen, LAMBDA p : ~IsFeatured(p) /\ IsListed(p)))

\* Without a tag every project of the list is listed.
AllListed == ~Truthy(Get(applied.args, "tag")) => Len(Listed) = Len(ProjectsSeen)

\* C13: list_projects with sort = impact, which is also the default, lists
\* every featured project before every project that is not featured, and
\* within each group the projects keep their order of the project list.
C13_ImpactSortIsStable ==
  ImpactApplied => ResultJson.ok /\ FeaturedFirst /\ GroupsKeepOrder /\ AllListed

\* A list that starts with a project that is not featured and holds two
\* featured ones has been listed by impact.
C13_Witness ==
  /\ ImpactApplied
  /\ Len(ProjectsSeen) >= 3
  /\ ~IsFeatured(ProjectsSeen[1])
  /\ Len(SelectSeq(ProjectsSeen, IsFeatured)) >= 2
  /\ Len(Listed) = Len(ProjectsSeen)
  /\ IsFeatured(Listed[1])

\* The field is not among the arguments.
Missing(field) == Get(applied.args, field).t = "undef"

\* A tool has been called without a field its definition requires
\* (toolDefinitions: search_site query, get_project slug, get_resume_section section).
RequiredFieldMissing ==
  /\ ToolApplied
  /\ \/ applied.name = <<"search_site">> /\ Missing("query")
     \/ applied.name = <<"get_project">> /\ Missing("slug")
     \/ applied.name = <<"get_resume_section">> /\ Missing("section")

\* C14: a tool called without one of its required fields (search_site
\* without query, get_project without slug, get_resume_section without
\* section) returns a JSON object with an error key and does not throw.
C14_MissingFieldReturnsError == RequiredFieldMissing => ReturnedError

\* A value outside the enum the tool's definition declares has been given
\* (toolDefinitions: section is summary, experience or education; sort is
\* impact or recent).
OutsideEnum ==
  /\ ToolApplied
  /\ \/ /\ applied.name = <<"get_resume_section">>
        /\ Get(applied.args, "section").t = "str"
        /\ Get(applied.args, "section").v \notin {<<"summary">>, <<"experience">>, <<"education">>}
        /\ Get(applied.args, "section").v # <<>>
     \/ /\ applied.name = <<"list_projects">>
        /\ Get(applied.args, "sort").t = "str"
        /\ Get(applied.args, "sort").v \notin {<<"impact">>, <<"recent">>}

\* C15: a tool called with a value outside its declared enum
\* (get_resume_section with another section, list_projects with another
\* sort) returns a JSON object with an error key and does not throw.
C15_UnknownEnumReturnsError == OutsideEnum => ReturnedError

(***************************************************************************)
(* The gateway on its own: chat() applied to one backend response          *)
(***************************************************************************)
\* Args objects nest at most MaxNesting objects deep.
MaxNesting == 2

RECURSIVE NestedArgs(_)
\* The text {"query":"rag","opts":{"opts":{...{}...}}} with n objects inside
NestedArgs(n) ==
  IF n = 0 THEN <<"{", "}">>
  ELSE <<"{">> \o Q("query") \o <<":">> \o Q("rag") \o <<",">> \o Q("opts") \o <<":">> \o
       NestedArgs(n - 1) \o <<"}">>

\* {"tool":<tool>,"args":<args>}
CallObject(tool, args) ==
  <<"{">> \o Q("tool") \o <<":">> \o tool \o <<",">> \o Q("args") \o <<":">> \o args \o <<"}">>

\* Objects of the shape {tool: string, args: object}: empty and nested
\* args, whitespace between the tokens, another key order, an extra key,
\* braces inside a string.
WellFormedObjects ==
  {CallObject(Q("get_contact"), NestedArgs(n)) : n \in 0..MaxNesting} \cup
  {CallObject(Q("get_project"), <<"{">> \o Q("slug") \o <<":">> \o Q("rag") \o <<"}">>),
   <<"{", " ">> \o Q("tool") \o <<" ", ":", " ">> \o Q("get_skills") \o <<",", "\n">> \o
     Q("args") \o <<":", " ", "{", " ", "}", " ", "}">>,
   <<"{">> \o Q("args") \o <<":", "{", "}", ",">> \o Q("tool") \o <<":">> \o Q("get_skills") \o <<"}">>,
   <<"{">> \o Q("tool") \o <<":">> \o Q("get_skills") \o <<",">> \o Q("args") \o <<":", "{", "}", ",">> \o
     Q("id") \o <<":", "1", "}">>,
   CallObject(Q("search_site"), <<"{">> \o Q("query") \o <<":">> \o Q("}") \o <<"}">>),
   CallObject(Q("search_site"), <<"{">> \o Q("query") \o <<":">> \o Q("{") \o <<"}">>),
   CallObject(Q("search_site"), <<"{">> \o Q("query") \o <<":", QUOTE, "{", "}", QUOTE, "}">>)}

\* What may follow the marker instead: nothing, no brace, braces that never
\* balance, text that is no JSON, JSON of another shape.
MalformedObjects ==
  {<<>>, <<"get_contact">>, <<"{", "{", "}">>,
   CallObject(Q("get_contact"), <<"{">>),
   <<"{", "tool", ":", "get_contact", "}">>,
   CallObject(Q("get_contact"), <<"[", "]">>),
   CallObject(Q("get_contact"), <<"null">>),
   CallObject(<<"5">>, <<"{", "}">>),
   <<"{">> \o Q("tool") \o <<":">> \o Q("get_contact") \o <<"}">>,
   <<"[">> \o CallObject(Q("get_contact"), <<"{", "}">>) \o <<"]">>}

Prefixes == {<<>>, <<"Sure.", " ">>, <<FINAL_MARKER, " ", "done", "\n">>}

Gaps == {<<>>, <<" ">>, <<" ", "use", " ">>}

Suffixes == {<<>>, <<" ", "thanks">>, <<"}">>, <<"\n", FINAL_MARKER, " ", "It is x@y.com", " ">>}

\* Texts that hold the marker
MarkerTexts ==
  {p \o <<TOOL_CALL_MARKER>> \o g \o o \o s :
     p \in Prefixes, g \in Gaps, o \in WellFormedObjects \cup MalformedObjects, s \in Suffixes}

\* Texts without the marker: final answers, FINAL: with nothing or only
\* whitespace after it, two FINAL: markers, plain text, a bare object, nothing.
PlainTexts ==
  {FinalText, BlankFinalText, <<FINAL_MARKER>>, <<"Well.", " ", FINAL_MARKER, "\n", " ">>,
   <<"Well.", "\n", FINAL_MARKER, "a", " ", FINAL_MARKER, " ", "b">>,
   PlainText, CallObject(Q("get_contact"), <<"{", "}">>), <<" ">>, <<>>}

ParserTexts == MarkerTexts \cup PlainTexts

\* The response bodies that carry a text, for each backend
TextKinds(backend) ==
  CASE backend = "gemini" -> {"text"}
    [] backend = "hf" -> {"message", "generated_text"}
    [] OTHER -> {"message"}

\* tool_calls of a choices[0].message: none, or one native call
NativeChoices == {<<>>, <<NativeMenu[1]>>}

ParserInit ==
  /\ NoRequest
  /\ applied = NotApplied
  /\ disk = DiskStates[1]
  /\ cache = Caches(JNull, JNull, JNull)
  /\ \E i \in 1..3 : env = Envs[i]

\* chat() has turned the backend's answer raw into out; call is what
\* parseFallbackToolCall made of the text.
Normalized(raw, call, out) ==
  applied' = [fn |-> "chat", raw |-> raw, call |-> call, out |-> out]

NormalizeRaw(raw) ==
  Normalized(raw, parseFallbackToolCall(raw.content, now), chat(env, raw, now))

\* The backend answers with a text, or with a message that has native tool
\* calls and a text or null content.
Normalize ==
  /\ applied.fn = "none"
  /\ \E text \in ParserTexts, kind \in TextKinds(Backend(env)), native \in NativeChoices,
        hasContent \in BOOLEAN :
       /\ kind # "message" => native = <<>> /\ hasContent
       /\ ~hasContent => text = <<>>
       /\ NormalizeRaw(RawResponse(kind, text, hasContent, native,
                                   IF native = <<>> THEN "stop" ELSE "tool_calls"))
  /\ UNCHANGED <<requestVars, env, disk, cache>>

ParserNext == Normalize

ParserSpec == ParserInit /\ [][ParserNext]_vars

(***************************************************************************)
(* C16..C18: the text grammar of the gateway                               *)
(***************************************************************************)
ChatApplied == applied.fn = "chat"

\* The text the backend sent (the empty text for a null content)
SentText == applied.raw.content

\* The position of the first { after the first marker, 0 if there is none
ObjectStart(s) ==
  LET m == IndexOf(s, TOOL_CALL_MARKER, 1) IN
  IF m = 0 THEN 0 ELSE IndexOf(s, "{", m)

\* x has the shape {tool: string, args: object}
HasCallShape(x) ==
  /\ x.t = "obj"
  /\ Get(x, "tool").t = "str"
  /\ Get(x, "args").t = "obj"

IsCallObject(s) == LET p == JSONParse(s) IN p.ok /\ HasCallShape(p.val)

\* The positions at which a JSON object of that shape, begun at the first
\* { after the marker, may end
ObjectEnds(s) ==
  IF ObjectStart(s) = 0 THEN {}
  ELSE {e \in ObjectStart(s)..Len(s) :
          s[e] = "}" /\ IsCallObject(SubSeq(s, ObjectStart(s), e))}

MarkerThenCallObject(s) == ObjectEnds(s) # {}

\* The object that follows the marker
FollowingObject(s) ==
  JSONParse(SubSeq(s, ObjectStart(s), CHOOSE e \in ObjectEnds(s) : TRUE)).val

\* Opening minus closing braces in s[a..b], those inside strings included
Depth(s, a, b) ==
  Cardinality({i \in a..b : s[i] = "{"}) - Cardinality({i \in a..b : s[i] = "}"})

\* The position where the braces from position a on first balance, 0 if
\* they never do
FirstBalance(s, a) ==
  LET zs == {k \in a..Len(s) : Depth(s, a, k) = 0} IN
  IF zs = {} THEN 0 ELSE CHOOSE k \in zs : \A z \in zs : k <= z

\* The braces first balance where the object ends
BalancesAtObjectEnd(s) == FirstBalance(s, ObjectStart(s)) \in ObjectEnds(s)

\* One tool call with the object's tool as its name and the JSON encoding
\* of its args as its arguments
CallOf(object) ==
  /\ applied.call.found
  /\ applied.call.call.name = Get(object, "tool").v
  /\ applied.call.call.arguments = Stringify(Get(object, "args"), FALSE)

GetContactObject == CallObject(Q("get_contact"), <<"{", "}">>)

\* The text after TOOL_CALL: is the get_contact object, perhaps followed by more
GetContactExample(s) ==
  LET m == IndexOf(s, TOOL_CALL_MARKER, 1) IN
  /\ m # 0
  /\ IsPrefix(GetContactObject, SubSeq(s, m + 1, Len(s)))

IsGetContactCall ==
  /\ applied.call.found
  /\ applied.call.call.name = <<"get_contact">>
  /\ applied.call.call.arguments = <<"{", "}">>

\* C16 as stated: whenever the marker TOOL_CALL: is followed by a valid JSON
\* object {tool: string, args: object}, parseFallbackToolCall returns one
\* tool call whose name is the tool and whose arguments are the JSON encoding
\* of args, whatever follows the object's closing brace.
C16_AnyCallObject ==
  ChatApplied /\ MarkerThenCallObject(SentText) => CallOf(FollowingObject(SentText))

\* C16: whenever the marker TOOL_CALL: is followed by a valid JSON object
\* {tool: string, args: object} at whose closing brace the braces, those
\* inside strings counted too, first balance, parseFallbackToolCall returns
\* one tool call whose name is the tool and whose arguments are the JSON
\* encoding of args (name get_contact and arguments {} for the get_contact
\* object), whatever follows the closing brace.
C16_BalancedCallObject ==
  ChatApplied =>
    /\ MarkerThenCallObject(SentText) /\ BalancesAtObjectEnd(SentText)
         => CallOf(FollowingObject(SentText))
    /\ GetContactExample(SentText) => IsGetContactCall

\* A nested args object with text after its closing brace has been parsed.
C16_Witness ==
  /\ ChatApplied
  /\ MarkerThenCallObject(SentText) /\ BalancesAtObjectEnd(SentText)
  /\ Get(Get(FollowingObject(SentText), "args"), "opts").t = "obj"
  /\ Get(Get(Get(FollowingObject(SentText), "args"), "opts"), "opts").t = "obj"
  /\ \E e \in ObjectEnds(SentText) : e < Len(SentText)
  /\ applied.call.found

MarkerAbsent(s) == IndexOf(s, TOOL_CALL_MARKER, 1) = 0

NoBraceFollows(s) == ~MarkerAbsent(s) /\ ObjectStart(s) = 0

NeverBalances(s) == ObjectStart(s) # 0 /\ FirstBalance(s, ObjectStart(s)) = 0

\* The text from the first { after the marker to where the braces balance
Enclosed(s) == SubSeq(s, ObjectStart(s), FirstBalance(s, ObjectStart(s)))

EnclosedNotCall(s) ==
  /\ ObjectStart(s) # 0
  /\ FirstBalance(s, ObjectStart(s)) # 0
  /\ ~IsCallObject(Enclosed(s))

NotParseable(s) ==
  MarkerAbsent(s) \/ NoBraceFollows(s) \/ NeverBalances(s) \/ EnclosedNotCall(s)

\* The backend's message carries native tool calls
NativeCalls == applied.raw.kind = "message" /\ applied.raw.tool_calls # <<>>

\* A legacy HuggingFace body {generated_text: ""}
EmptyGeneratedText == applied.raw.kind = "generated_text" /\ SentText = <<>>

FinalOccurs(s) == IndexOf(s, FINAL_MARKER, 1) # 0

\* The text after the first FINAL:
AfterFinal(s) == SubSeq(s, IndexOf(s, FINAL_MARKER, 1) + 1, Len(s))

\* The response is a text, without tool calls
IsContent(text) ==
  /\ ~applied.out.threw
  /\ applied.out.toolCalls = <<>>
  /\ applied.out.hasContent
  /\ applied.out.content = text

\* The FINAL: / raw-text grammar
FinalOrRaw(s) ==
  IF FinalOccurs(s) /\ Trim(AfterFinal(s)) # <<>>
  THEN IsContent(Trim(AfterFinal(s)))
  ELSE IsContent(s)

\* C17: parseFallbackToolCall returns no tool call when the marker is absent,
\* when no { follows it, when the braces never balance, or when the enclosed
\* text is not valid JSON of the shape {tool: string, args: object}; the
\* gateway then does not fail the turn but goes on to the FINAL: / raw-text
\* grammar.
C17_UnparseableIsNoToolCall ==
  ChatApplied /\ NotParseable(SentText) =>
    /\ ~applied.call.found
    /\ ~NativeCalls /\ ~EmptyGeneratedText => FinalOrRaw(SentText)

\* JSON of another shape followed the marker, and the final answer after it
\* became the content.
C17_Witness ==
  /\ ChatApplied /\ ~NativeCalls
  /\ EnclosedNotCall(SentText)
  /\ JSONParse(Enclosed(SentText)).ok
  /\ ~applied.call.found
  /\ FinalOccurs(SentText)
  /\ IsContent(<<"It is x@y.com">>)

\* The text holds a parseable TOOL_CALL:
Parseable(s) == ~NotParseable(s)

\* Exactly one tool call, made from the text, and no content
IsFallbackCall(s) ==
  /\ ~applied.out.threw
  /\ Len(applied.out.toolCalls) = 1
  /\ applied.out.toolCalls[1].name = Get(JSONParse(Enclosed(s)).val, "tool").v
  /\ applied.out.toolCalls[1].arguments = Stringify(Get(JSONParse(Enclosed(s)).val, "args"), FALSE)
  /\ ~applied.out.hasContent

\* The native tool calls and the content are returned as they came
IsAsReceived ==
  /\ ~applied.out.threw
  /\ applied.out.toolCalls = applied.raw.tool_calls
  /\ applied.out.hasContent = applied.raw.hasContent
  /\ applied.out.content = applied.raw.content

\* C18 as stated: on every backend (1) native tool calls are returned as
\* they are; (2) otherwise a parseable TOOL_CALL: yields exactly one tool call
\* and no content; (3) otherwise, if FINAL: occurs, the content is the trimmed
\* text after it; (4) otherwise the content is the whole raw text.
C18_FinalWhereverItOccurs ==
  ChatApplied =>
    IF NativeCalls THEN IsAsReceived
    ELSE IF Parseable(SentText) THEN IsFallbackCall(SentText)
    ELSE IF FinalOccurs(SentText) THEN IsContent(Trim(AfterFinal(SentText)))
    ELSE IsContent(SentText)

\* C18: on every backend (1) native tool calls are returned as they are;
\* (2) otherwise a parseable TOOL_CALL: yields exactly one tool call and no
\* content, also when the text holds FINAL: as well; (3) otherwise, if FINAL:
\* occurs with a non-whitespace character after it, the content is the
\* trimmed text after it; (4) otherwise the content is the whole raw text,
\* except that an empty legacy generated_text is rejected as an error.
C18_NormalizationPrecedence ==
  ChatApplied =>
    IF NativeCalls THEN IsAsReceived
    ELSE IF EmptyGeneratedText THEN applied.out.threw
    ELSE IF Parseable(SentText) THEN IsFallbackCall(SentText)
    ELSE FinalOrRaw(SentText)

\* A text with a parseable TOOL_CALL: and a FINAL: became a tool call.
C18_Witness ==
  /\ ChatApplied /\ ~NativeCalls
  /\ Parseable(SentText)
  /\ FinalOccurs(SentText)
  /\ IsFallbackCall(SentText)

(***************************************************************************)
(* extractProjectCards on its own                                          *)
(***************************************************************************)
\* The tool-result lists given to extractProjectCards hold at most
\* MaxResults results.
MaxResults == 2

\* A project-shaped record with the given url
UrlRecord(title, url) ==
  JObj(<<M("slug", Str1(title)), M("title", Str1(title)), M("shortDescription", Str1("short")),
         M("url", url), M("tags", StrList(<<"NLP">>))>>)

\* A hit of a search listing
UrlHit(type, title, url) ==
  JObj(<<M("type", Str1(type)), M("title", Str1(title)), M("snippet", Str1("snippet")),
         M("url", url)>>)

\* Calls whose results hold project records
RealCalls ==
  <<[name |-> <<"list_projects">>, args |-> JObj(<<>>)],
    [name |-> <<"get_project">>, args |-> JObj(<<M("slug", Str1("rag"))>>)],
    [name |-> <<"search_site">>, args |-> JObj(<<M("query", Str1("rag"))>>)]>>

\* Results whose records carry a url: listings, single projects and search
\* listings that share urls; a listing with a null entry; text that is no JSON.
UrlResults ==
  <<Stringify(JObj(<<M("projects", JArr(<<UrlRecord("A", Str1("/projects/a")),
                                          UrlRecord("B", Str1("/projects/b")),
                                          UrlRecord("A2", Str1("/projects/a"))>>))>>), FALSE),
    Stringify(UrlRecord("A3", Str1("/projects/a")), FALSE),
    Stringify(UrlRecord("C", Str1("/projects/c")), FALSE),
    Stringify(JObj(<<M("results", JArr(<<UrlHit("project", "B2", Str1("/projects/b")),
                                         UrlHit("page", "About", Str1("/about")),
                                         UrlHit("project", "D", Str1("/projects/d"))>>))>>), FALSE),
    Stringify(JObj(<<M("projects", JArr(<<UrlRecord("E", Str1("/projects/e")), JNull,
                                          UrlRecord("F", Str1("/projects/f"))>>))>>), FALSE),
    Stringify(JObj(<<M("projects", JArr(<<UrlRecord("N", JNum(<<"7">>)),
                                          UrlRecord("N2", JNum(<<"7">>)),
                                          UrlRecord("U", JNull)>>))>>), FALSE),
    <<"Error", ":", " ", "oops">>>>

\* The tool results gathered so far
Gathered == IF applied.fn = "toolResults" THEN applied.toolResults ELSE <<>>

CardsInit ==
  /\ NoRequest
  /\ applied = NotApplied
  /\ env = Envs[1]
  /\ disk = DiskStates[1]
  /\ cache = Caches(JNull, JNull, JNull)

\* allToolResults.push(result)
Pushed(result) == applied' = [fn |-> "toolResults", toolResults |-> Append(Gathered, result)]

\* One more tool result: what a tool returns from the files on disk, or a
\* result whose records carry a url.
PushResult ==
  /\ applied.fn \in {"none", "toolResults"}
  /\ Len(Gathered) < MaxResults
  /\ \/ \E k \in 1..Len(RealCalls) :
          Pushed(callTool(RealCalls[k].name, RealCalls[k].args, cache, disk).result)
     \/ \E k \in 1..Len(UrlResults) : Pushed(UrlResults[k])
  /\ UNCHANGED <<requestVars, env, disk, cache>>

\* extractProjectCards(toolResults) has pushed records before its filter and
\* returned cards, and again on a second run.
Extracted(toolResults, records, cards, again) ==
  applied' = [fn |-> "extractProjectCards", toolResults |-> toolResults, records |-> records,
              cards |-> cards, again |-> again]

Extract ==
  /\ applied.fn \in {"none", "toolResults"}
  /\ Extracted(Gathered, Concat([i \in 1..Len(Gathered) |-> cardsOfResult(Gathered[i])]),
               extractProjectCards(Gathered), extractProjectCards(Gathered))
  /\ UNCHANGED <<requestVars, env, disk, cache>>

CardsNext ==
  \/ PushResult
  \/ Extract


CardsSpec == CardsInit /\ [][CardsNext]_vars

(***************************************************************************)
(* C19: deduplication by url                                               *)
(***************************************************************************)
ExtractApplied == applied.fn = "extractProjectCards"

\* The records of the tool results in source order, before the filter
Records == applied.records

UrlOf(card) == Get(card, "url")

\* Two cards the Set of urls takes for the same
SameUrl(a, b) == UrlOf(a).t = UrlOf(b).t /\ UrlOf(a).v = UrlOf(b).v

SameCard(a, b) == Stringify(a, FALSE) = Stringify(b, FALSE)

NoTwoCardsShareUrl(cards) ==
  \A i, j \in 1..Len(cards) : i # j => ~SameUrl(cards[i], cards[j])

\* The first record in source order with the url of card
FirstWithUrl(card) ==
  CHOOSE i \in 1..Len(Records) :
    /\ SameUrl(Records[i], card)
    /\ \A j \in 1..(i - 1) : ~SameUrl(Records[j], card)

\* Every card is the first record with its url, fields and all, and every
\* record's url has a card
FirstRecordWins(cards) ==
  /\ \A k \in 1..Len(cards) :
       /\ \E i \in 1..Len(Records) : SameUrl(Records[i], cards[k])
       /\ SameCard(cards[k], Records[FirstWithUrl(cards[k])])
  /\ \A i \in 1..Len(Records) : \E k \in 1..Len(cards) : SameUrl(Records[i], cards[k])

KeepsSourceOrder(cards) ==
  \A k, l \in 1..Len(cards) : k < l => FirstWithUrl(cards[k]) < FirstWithUrl(cards[l])

SameCards(a, b) == Stringify(JArr(a), FALSE) = Stringify(JArr(b), FALSE)

TitlesOfData(data) ==
  LET projects == Get(data, "projects")
      results == Get(data, "results") IN
  (IF projects.t = "arr"
   THEN {Get(projects.v[i], "title").v : i \in 1..Len(projects.v)} ELSE {})
  \cup (IF Get(data, "slug").t = "str" /\ Get(data, "title").t = "str"
        THEN {Get(data, "title").v} ELSE {})
  \cup (IF results.t = "arr"
        THEN {Get(results.v[i], "title").v :
                i \in {j \in 1..Len(results.v) : Get(results.v[j], "type").v = <<"project">>}}
        ELSE {})

TitlesOfResult(parsed) ==
  IF parsed.ok /\ parsed.val.t = "obj" THEN TitlesOfData(parsed.val) ELSE {}

\* The distinct project records in the tool results accumulated by the loop
DistinctProjects ==
  UNION {TitlesOfResult(JSONParse(allToolResults[i])) : i \in 1..Len(allToolResults)}

CardCount == IF CardsOnWire.t = "arr" THEN Len(CardsOnWire.v) ELSE 0

\* C20: when a request ends with a textual answer, the response carries
\* one card for each distinct project record in the accumulated tool
\* results, at most five: min(k, 5) cards after a list_projects call that
\* returned k distinct projects.
C20_OneCardPerProject ==
  IsAnswer /\ pc = "done" /\ Status = 200 =>
    CardCount = Min(Cardinality(DistinctProjects), MAX_CARDS)

(***************************************************************************)
(* checkRateLimit on its own (src/lib/rate-limit.ts)                       *)
(***************************************************************************)
\* Time runs over MaxWindows window lengths.
MaxWindows == 1

\* At most MaxPending calls are suspended at await ratelimit.limit().
MaxPending == 2

\* At most MaxExtra calls for one identifier follow the 20th of a window.
MaxExtra == 2

\* The second identifier makes at most MaxOther calls in 60 seconds.
MaxOther == 2

\* Date.now() at the calls: 0, and the end of each window length with the
\* millisecond after it
TimePoints == {0} \cup {w * WINDOW_MS + d : w \in 1..MaxWindows, d \in 0..1}

Identifiers == <<Ip1, Ip2>>

\* The calls one identifier may make in 60 seconds
CallCap(identifier) == IF identifier = Ip1 THEN MAX_REQUESTS + MaxExtra ELSE MaxOther

\* The part of a request's state the limiter does not touch
handlerVars ==
  <<request, pc, rateLimit, conversationMessages, iterations, allToolResults, response,
    toolIndex, httpResponse, chatCalls, backendLog, toolLog>>

LimiterInit ==
  /\ NoRequest
  /\ applied = NotApplied
  /\ \E i \in {1, 5} : env = Envs[i]
  /\ disk = DiskStates[1]
  /\ cache = Caches(JNull, JNull, JNull)

\* The calls answered from memoryStore so far, by identifier: when the
\* current 60-second span of calls began, how many calls fell into it and
\* how many of them were allowed.  A call later than WINDOW_MS after the
\* beginning of the span begins a new one.
Spans == IF applied.fn = "checkRateLimit" THEN applied.spans ELSE <<>>

InSpan(identifier, t) ==
  identifier \in DOMAIN Spans /\ t <= Spans[identifier].began + WINDOW_MS

SpansAfter(identifier, t, allowed) ==
  LET n == IF allowed THEN 1 ELSE 0
      span == IF InSpan(identifier, t)
              THEN [began |-> Spans[identifier].began, calls |-> Spans[identifier].calls + 1,
                    allowed |-> Spans[identifier].allowed + n]
              ELSE [began |-> t, calls |-> 1, allowed |-> n] IN
  [k \in DOMAIN Spans \cup {identifier} |-> IF k = identifier THEN span ELSE Spans[k]]

\* The entry of memoryStore for the identifier
EntryOf(store, identifier) ==
  IF identifier \in DOMAIN store
  THEN [has |-> TRUE, count |-> store[identifier].count, resetAt |-> store[identifier].resetAt]
  ELSE [has |-> FALSE, count |-> 0, resetAt |-> 0]

\* checkRateLimit(identifier) has returned out.result from memoryStore at time now
Checked(identifier, out) ==
  /\ memoryStore' = out.store
  /\ applied' = [fn |-> "checkRateLimit", identifier |-> identifier, t |-> now,
                 branch |-> "memory", before |-> EntryOf(memoryStore, identifier),
                 result |-> out.result,
                 spans |-> SpansAfter(identifier, now, out.result.allowed)]

\* Lines 56-91 of checkRateLimit: they run without an await
MemoryBranch(identifier) ==
  /\ InSpan(identifier, now) => Spans[identifier].calls < CallCap(identifier)
  /\ Checked(identifier, checkRateLimit(memoryStore, identifier, now))

\* checkRateLimit(identifier) is called: without Upstash it answers from
\* memoryStore, with Upstash it is suspended at await ratelimit.limit().
CallCheckRateLimit ==
  /\ \E i \in 1..Len(Identifiers) :
       IF env.UPSTASH
       THEN /\ BagCardinality(suspended) < MaxPending
            /\ suspended' = suspended (+) SetToBag({Identifiers[i]})
            /\ UNCHANGED <<memoryStore, applied>>
       ELSE /\ MemoryBranch(Identifiers[i])
            /\ UNCHANGED suspended
  /\ UNCHANGED <<handlerVars, now, env, disk, cache, client, server>>

\* ratelimit.limit() settles for one of the suspended calls: with a verdict,
\* or with an error, after which the call answers from memoryStore.
LimitSettles ==
  /\ \E identifier \in BagToSet(suspended), o \in 1..Len(UpstashOutcomes) :
       /\ suspended' = suspended (-) SetToBag({identifier})
       /\ IF UpstashOutcomes[o] = "error"
          THEN MemoryBranch(identifier)
          ELSE /\ applied' = [fn |-> "checkRateLimit", identifier |-> identifier, t |-> now,
                              branch |-> "upstash", before |-> EntryOf(memoryStore, identifier),
                              result |-> RateLimitResult(UpstashOutcomes[o] = "allow",
                                           IF UpstashOutcomes[o] = "allow"
                                           THEN MAX_REQUESTS - 1 ELSE 0, now + WINDOW_MS),
                              spans |-> Spans]
               /\ UNCHANGED memoryStore
  /\ UNCHANGED <<handlerVars, now, env, disk, cache, client, server>>

\* Time passes between two calls.
Tick ==
  /\ \E t \in TimePoints : t > now /\ now' = t
  /\ UNCHANGED <<handlerVars, memoryStore, applied, suspended, env, disk, cache, client,
               server>>

LimiterNext ==
  \/ CallCheckRateLimit
  \/ LimitSettles
  \/ Tick

LimiterSpec == LimiterInit /\ [][LimiterNext]_vars

(***************************************************************************)
(* C21: the window of the in-memory limiter                                *)
(***************************************************************************)
\* The latest call of checkRateLimit was answered from memoryStore
AnsweredFromMemory == applied.fn = "checkRateLimit" /\ applied.branch = "memory"

\* The place of the latest call among its identifier's calls of the current
\* 60 seconds
NthOfSpan == applied.spans[applied.identifier].calls

\* The latest call is the first after the reset time of its identifier's window
FirstAfterReset == applied.before.has /\ applied.before.resetAt < applied.t

\* C21: with the in-memory limiter, for one identifier, the first 20
\* requests inside a 60-second window are allowed with remaining 19 down to
\* 0; the 21st and every later request inside the window gets allowed false
\* and remaining 0; the first request after the window's reset time gets
\* allowed true and remaining 19 and opens a new 60-second window.
C21_TwentyPerWindow ==
  AnsweredFromMemory =>
    /\ NthOfSpan <= MAX_REQUESTS =>
         applied.result.allowed /\ applied.result.remaining = MAX_REQUESTS - NthOfSpan
    /\ NthOfSpan > MAX_REQUESTS =>
         ~applied.result.allowed /\ applied.result.remaining = 0
    /\ FirstAfterReset =>
         /\ NthOfSpan = 1
         /\ applied.result.allowed /\ applied.result.remaining = MAX_REQUESTS - 1
         /\ applied.result.resetAt = applied.t + WINDOW_MS
         /\ memoryStore[applied.identifier] = [count |-> 1, resetAt |-> applied.t + WINDOW_MS]

\* After a window with denied requests the first request past its reset
\* time has been allowed.
C21_Witness ==
  /\ AnsweredFromMemory
  /\ FirstAfterReset
  /\ applied.before.count = MAX_REQUESTS
  /\ applied.result.allowed

(***************************************************************************)
(* C22: bodies that do not conform to requestSchema                        *)
(***************************************************************************)
\* The request passed the rate limit and POST has returned
PassedRateLimit == pc = "done" /\ rateLimit.allowed

\* The body is no JSON text, or JSON that requestSchema rejects
NonConforming == ~request.bodyOk \/ ~requestSchemaOk(request.body)

\* C22: a request that passes the rate limit with a body that does not
\* conform to the schema is answered with HTTP 400 carrying error and
\* details, never 500, and no model call or tool invocation is made for it.
C22_InvalidBodyIs400 ==
  PassedRateLimit /\ NonConforming =>
    /\ Status = 400
    /\ HasKey(httpResponse.body, <<"error">>)
    /\ HasKey(httpResponse.body, <<"details">>)
    /\ chatCalls = 0
    /\ toolLog = <<>>

(***************************************************************************)
(* Several requests in progress (src/app/api/chat/route.ts)                *)
(***************************************************************************)
\* In the runs with several requests each request makes at most MaxTurns
\* model calls.
MaxTurns == 2

\* A second client's request
OtherRequest ==
  Request(<<>>, Ip2, TRUE,
          Body(<<Msg("user", <<"Show me your projects">>), Msg("assistant", <<"Sure.">>),
                 Msg("user", <<"Which one is featured?">>)>>))

\* The variables of one activation of POST: its parameter, its locals, its
\* position, what it returned, and its history
Locals ==
  [request |-> request, pc |-> pc, rateLimit |-> rateLimit,
   conversationMessages |-> conversationMessages, iterations |-> iterations,
   allToolResults |-> allToolResults, response |-> response, toolIndex |-> toolIndex,
   httpResponse |-> httpResponse, chatCalls |-> chatCalls, backendLog |-> backendLog,
   toolLog |-> toolLog]

\* The activation of POST for a request that has just arrived
Arrived(req) ==
  [request |-> req, pc |-> "start", rateLimit |-> RateLimitResult(FALSE, 0, 0),
   conversationMessages |-> <<>>, iterations |-> 0, allToolResults |-> <<>>,
   response |-> NoChatResponse, toolIndex |-> 0, httpResponse |-> NoResponse,
   chatCalls |-> 0, backendLog |-> <<>>, toolLog |-> <<>>]

\* Variant of the resumption: allToolResults is declared at module level,
\* one list for all requests.
Resume_moduleLevelResults(a, running) ==
  [a EXCEPT !.allToolResults = running.allToolResults]

\* What the activation a finds when it is resumed while the activation
\* running is suspended: its own variables, which are declared inside POST.
Resume(a, running) == a

\* The activation a runs on.
Resumed(a) ==
  /\ request' = a.request
  /\ pc' = a.pc
  /\ rateLimit' = a.rateLimit
  /\ conversationMessages' = a.conversationMessages
  /\ iterations' = a.iterations
  /\ allToolResults' = a.allToolResults
  /\ response' = a.response
  /\ toolIndex' = a.toolIndex
  /\ httpResponse' = a.httpResponse
  /\ chatCalls' = a.chatCalls
  /\ backendLog' = a.backendLog
  /\ toolLog' = a.toolLog

\* The running request waits at an await (or has returned) and the event
\* loop runs another request on.  Every step of a request ends at an await.
Switch ==
  /\ \E a \in BagToSet(suspended) :
       /\ suspended' = (suspended (-) SetToBag({a})) (+) SetToBag({Locals})
       /\ Resumed(Resume(a, Locals))
  /\ UNCHANGED <<env, disk, now, memoryStore, cache, applied, client, server>>

\* chat() is called, for at most MaxTurns turns of a request.
BoundedCallModel == chatCalls < MaxTurns /\ CallModel

\* In the runs with several requests the backend answers at once, with a
\* tool call or with a final answer.
ConcurrentTexts == {GetContactText, FinalWithToolCallText, FinalText}

BoundedModelResponds ==
  /\ ModelResponds
  /\ now' = now
  /\ backendLog'[Len(backendLog')].content \in ConcurrentTexts

ConcurrentInit ==
  /\ applied = NotApplied
  /\ env = Envs[1]
  /\ disk = DiskStates[1]
  /\ memoryStore = InitialStores[1]
  /\ now = 0
  /\ cache = Caches(JNull, JNull, JNull)
  /\ suspended = SetToBag({Arrived(OtherRequest)})
  /\ client = NewClient
  /\ server = NoServer
  /\ request = Requests[1]
  /\ pc = "start"
  /\ rateLimit = RateLimitResult(FALSE, 0, 0)
  /\ conversationMessages = <<>>
  /\ iterations = 0
  /\ allToolResults = <<>>
  /\ response = NoChatResponse
  /\ toolIndex = 0
  /\ httpResponse = NoResponse
  /\ chatCalls = 0
  /\ backendLog = <<>>
  /\ toolLog = <<>>

ConcurrentNext ==
  \/ RateLimit
  \/ ParseRequest
  \/ BoundedCallModel
  \/ BoundedModelResponds
  \/ ExecuteToolCall
  \/ Switch

ConcurrentSpec == ConcurrentInit /\ [][ConcurrentNext]_vars

(***************************************************************************)
(* C23: nothing is shared between concurrent requests                      *)
(***************************************************************************)
\* The requests in progress: the running one and the suspended ones
Activations == {Locals} \cup BagToSet(suspended)

\* The results the tools returned to the request a, in order
OwnResults(a) ==
  LET returned == SelectSeq(a.toolLog, LAMBDA e : ~e.threw) IN
  [i \in 1..Len(returned) |-> returned[i].content]

\* The contents of the tool messages of a transcript, in order
ToolContents(messages) ==
  LET tools == SelectSeq(messages, LAMBDA m : m.role = "tool") IN
  [i \in 1..Len(tools) |-> tools[i].content]

\* The transcript of a holds the messages a's client sent and the messages
\* made from a's tool calls, and nothing else
OwnTranscript(a) ==
  IF a.conversationMessages = <<>> THEN a.toolLog = <<>>
  ELSE /\ IsPrefix(initialConversation(a.request.body), a.conversationMessages)
       /\ Len(a.conversationMessages) =
            Len(initialConversation(a.request.body)) + 2 * Len(a.toolLog)
       /\ ToolContents(a.conversationMessages) = [i \in 1..Len(a.toolLog) |-> a.toolLog[i].content]

\* An answer of a carries the cards of a's own tool results
OwnCards(a) ==
  a.pc = "done" /\ a.httpResponse.status = 200 /\ HasKey(a.httpResponse.body, <<"cards">>) =>
    Stringify(Get(a.httpResponse.body, "cards"), FALSE) =
      Stringify(cardsField(extractProjectCards(OwnResults(a))), FALSE)

\* C23: with several requests in progress, interleaved at their suspension
\* points, each request's transcript and accumulated tool-result list hold
\* only the messages and results produced for that request, and its answer
\* and cards include no tool result obtained for another request.
C23_RequestsShareNothing ==
  \A a \in Activations :
    /\ a.allToolResults = OwnResults(a)
    /\ OwnTranscript(a)
    /\ OwnCards(a)

\* Two requests that ran interleaved have both been answered, each after a
\* tool call of its own.
C23_Witness ==
  /\ pc = "done" /\ Status = 200 /\ Len(allToolResults) = 1
  /\ \E a \in BagToSet(suspended) :
       /\ a.request # request
       /\ a.pc = "done" /\ a.httpResponse.status = 200
       /\ Len(a.allToolResults) = 1
       /\ a.allToolResults # allToolResults
       /\ a.toolLog[1].name # toolLog[1].name

(***************************************************************************)
(* C24: one thing at a time within a request                               *)
(***************************************************************************)
\* A model call is in progress: chat() was called and has not returned
ModelCallInProgress == pc = "chat"

\* A model call starts / a tool is invoked in this step
ModelCallStarts == chatCalls' = chatCalls + 1

ToolInvoked == toolLog' # toolLog

\* Every tool call of the previous turn has been executed, in order
PreviousTurnExecuted ==
  HasToolCalls(response) =>
    /\ toolIndex = 0
    /\ Len(toolLog) >= Len(response.toolCalls)
    /\ \A j \in 1..Len(response.toolCalls) :
         toolLog[Len(toolLog) - Len(response.toolCalls) + j].id = response.toolCalls[j].id

\* The transcript holds the result of every tool call made so far, in order
SeesEveryResult ==
  ToolContents(conversationMessages) = [i \in 1..Len(toolLog) |-> toolLog[i].content]

\* C24: within one request at most one model call or tool invocation is in
\* progress at any time, and a model call is started only after the results
\* of all tool calls of the previous turn have been appended to the
\* transcript, so that each model call sees the results of every earlier
\* tool call.
C24_StrictlySequential ==
  /\ [](ModelCallInProgress <=> chatCalls = Len(backendLog) + 1 /\ pc # "done")
  /\ [](chatCalls \in {Len(backendLog), Len(backendLog) + 1})
  /\ [][ToolInvoked => /\ ~ModelCallInProgress
                       /\ Len(toolLog') = Len(toolLog) + 1
                       /\ ~ModelCallStarts]_vars
  /\ [][ModelCallStarts => /\ ~ModelCallInProgress
                           /\ PreviousTurnExecuted
                           /\ SeesEveryResult
                           /\ UNCHANGED <<conversationMessages, toolLog>>]_vars
  /\ [](ModelCallInProgress => PreviousTurnExecuted /\ SeesEveryResult)

\* The second model call is in progress after a turn of two tool calls.
C24_Witness ==
  /\ ModelCallInProgress
  /\ chatCalls = 2
  /\ Len(response.toolCalls) = 2
  /\ Len(toolLog) = 2
  /\ Len(ToolContents(conversationMessages)) = 2

(***************************************************************************)
(* C25: missing configuration                                              *)
(***************************************************************************)
\* No API key for any backend, or a key for the HF / OpenAI-compatible
\* backends without a model identifier
ConfigAbsent ==
  /\ ~env.GOOGLE_API_KEY
  /\ ~env.HF_API_KEY \/ (~env.HF_MODEL /\ ~env.OPENAI_COMPAT_MODEL)

ConfigErrors ==
  {<<"HF_API_KEY or GOOGLE_API_KEY environment variable is required">>,
   <<"HF_MODEL or OPENAI_COMPAT_MODEL environment variable is required">>}

\* C25: if the required configuration is absent, chat() fails with a
\* configuration error before any network request is sent, and the chat
\* request is answered with the generic 500, which does not name the
\* missing setting.
C25_MissingConfigFailsFast ==
  ConfigAbsent =>
    /\ pc # "chat"
    /\ backendLog = <<>>
    /\ chatCalls > 0 =>
         /\ chatCalls = 1
         /\ response.threw /\ response.error \in ConfigErrors
         /\ pc = "done"
         /\ GenericErrorOnly
         /\ toolLog = <<>>

\* With an API key but no model identifier chat() has been called and the
\* request was answered 500.
C25_Witness ==
  /\ ConfigAbsent
  /\ env.HF_API_KEY
  /\ chatCalls = 1
  /\ response.threw
  /\ Status = 500

(***************************************************************************)
(* Successive callTool invocations on the caches the earlier ones left     *)
(* (src/lib/mcp-tools.ts, getProjects lines 105-110, callTool 202-404)     *)
(***************************************************************************)
\* The tools that read the project list
CacheNames == <<<<"list_projects">>, <<"get_project">>, <<"search_site">>>>

\* The arguments of the successive invocations
CacheArgs ==
  <<JObj(<<>>), JObj(<<M("query", Str1("rag"))>>), JObj(<<M("slug", Str1("rag"))>>),
    JObj(<<M("sort", Str1("impact"))>>), JObj(<<M("sort", Str1("recent"))>>),
    JObj(<<M("tag", Str1("nlp"))>>)>>

\* The process has just started, or projects.json was read when its second
\* and third projects were the featured ones.
CacheInit ==
  /\ NoRequest
  /\ env = Envs[1]
  /\ applied = NotApplied
  /\ \E i \in 1..Len(DiskStates) : disk = DiskStates[i]
  /\ \/ cache = Caches(JNull, JNull, JNull)
     \/ cache = Caches(JNull, JNull, LoadedProjects(<<FALSE, TRUE, TRUE>>))

\* An earlier invocation that is remembered, if any
Kept == IF applied.fn = "callTool" /\ "kept" \in DOMAIN applied THEN applied.kept ELSE <<>>

\* projectsCache as it was first filled: by an earlier invocation, before
\* the first invocation, or by the file the next read will return.
Original ==
  IF applied.fn = "callTool" /\ "original" \in DOMAIN applied THEN applied.original
  ELSE IF cache.projects.t # "null" THEN cache.projects
  ELSE ProjectsFile

\* What callTool(name, args) gave
Outcome(out) == [threw |-> out.threw, error |-> out.error, result |-> out.result]

\* callTool(CacheNames[n], CacheArgs[a]) has returned or thrown out.
InvokedAgain(n, a, out) ==
  /\ cache' = out.c
  /\ \E keep \in BOOLEAN :
       applied' = [fn |-> "callTool", name |-> CacheNames[n], args |-> CacheArgs[a],
                   before |-> cache, threw |-> out.threw, error |-> out.error,
                   result |-> out.result, call |-> <<n, a>>, original |-> Original,
                   kept |-> IF Kept = <<>> /\ keep
                            THEN <<[call |-> <<n, a>>, outcome |-> Outcome(out)]>>
                            ELSE Kept]

\* callTool is called on the caches the invocations before it left.
InvokeToolAgain ==
  /\ \E n \in 1..Len(CacheNames), a \in 1..Len(CacheArgs) :
       InvokedAgain(n, a, callTool(CacheNames[n], CacheArgs[a], cache, disk))
  /\ UNCHANGED <<requestVars, env, disk>>

CacheNext == InvokeToolAgain

CacheSpec == CacheInit /\ [][CacheNext]_vars

\* The invocation just made repeats the remembered one.
RepeatsKept ==
  /\ applied.fn = "callTool"
  /\ Kept # <<>>
  /\ Kept[1].call = applied.call

\* The project list of a projectsCache value, as text
ListText(projects) == Stringify(Get(projects, "projects"), FALSE)

\* C26: no tool invocation changes cached content: after any sequence of
\* callTool invocations (list_projects with any sort or tag included) the
\* cached project list has its original order and content, and an invocation
\* with the tool and arguments of an earlier one gives the same result.
C26_ToolsLeaveCacheAlone ==
  /\ cache.projects.t # "null" => ListText(cache.projects) = ListText(Original)
  /\ RepeatsKept => Outcome(applied) = Kept[1].outcome

\* list_projects sorted by date has been repeated on a loaded list whose
\* order is not the order by date.
C26_Witness ==
  /\ RepeatsKept
  /\ applied.name = <<"list_projects">>
  /\ StrictEq(Get(applied.args, "sort"), Str1("recent"))
  /\ applied.before.projects.t # "null"
  /\ cache.projects.t # "null"
  /\ StableSort(Get(cache.projects, "projects").v, "recent") # Get(cache.projects, "projects").v
  /\ ~applied.threw

(***************************************************************************)
(* C27: the in-memory limiter under concurrent calls                       *)
(***************************************************************************)
\* The latest call was answered from memoryStore with a denial
DeniedFromMemory ==
  /\ applied.fn = "checkRateLimit"
  /\ applied.branch = "memory"
  /\ ~applied.result.allowed

\* The calls allowed from memoryStore in the identifier's current window
AllowedInWindow(identifier) == Spans[identifier].allowed

\* C27: in any interleaving of concurrent checkRateLimit calls, at most 20
\* calls per identifier are allowed between the creation of a window and its
\* resetAt, the stored count never exceeds 20, and a denied call changes
\* neither count nor resetAt.
C27_LimitHoldsUnderConcurrency ==
  /\ \A identifier \in DOMAIN Spans : AllowedInWindow(identifier) <= MAX_REQUESTS
  /\ \A identifier \in DOMAIN memoryStore : memoryStore[identifier].count <= MAX_REQUESTS
  /\ DeniedFromMemory =>
       /\ applied.before.has
       /\ EntryOf(memoryStore, applied.identifier) = applied.before

\* With Upstash failing, a call was denied from memoryStore after 20 calls
\* were allowed in the window, while another call was still suspended.
C27_Witness ==
  /\ env.UPSTASH
  /\ DeniedFromMemory
  /\ AllowedInWindow(applied.identifier) = MAX_REQUESTS
  /\ applied.before.count = MAX_REQUESTS
  /\ suspended # EmptyBag

(***************************************************************************)
(* C28: the roles of the transcript                                        *)
(***************************************************************************)
\* The messages of the request body, once the body has passed the schema
ClientMessages == Get(request.body, "messages").v

RoleAt(i) == conversationMessages[i].role

\* The transcript is the system prompt, the client's messages with their
\* roles, and then what the loop has appended.
TranscriptShape ==
  conversationMessages # <<>> =>
    /\ requestSchemaOk(request.body)
    /\ Len(conversationMessages) >= 1 + Len(ClientMessages)
    /\ RoleAt(1) = "system"
    /\ \A i \in 2..Len(conversationMessages) : RoleAt(i) # "system"
    /\ \A i \in 1..Len(ClientMessages) :
         /\ RoleAt(1 + i) = Get(ClientMessages[i], "role").v[1]
         /\ RoleAt(1 + i) \in {"user", "assistant"}
    /\ \A i \in (2 + Len(ClientMessages))..Len(conversationMessages) :
         RoleAt(i) \in {"assistant", "tool"}

\* A step of the loop leaves the transcript it found in place and adds
\* assistant and tool messages only.
OnlyAppends ==
  conversationMessages # <<>> =>
    /\ Len(conversationMessages') >= Len(conversationMessages)
    /\ SubSeq(conversationMessages', 1, Len(conversationMessages)) = conversationMessages
    /\ \A i \in (Len(conversationMessages) + 1)..Len(conversationMessages') :
         conversationMessages'[i].role \in {"assistant", "tool"}

\* C28: throughout a request the transcript holds exactly one system
\* message, at position 0; the client's messages are user and assistant
\* messages only, and the loop appends assistant and tool messages only.
C28_OneSystemMessageFirst == []TranscriptShape /\ [][OnlyAppends]_vars

\* Two turns of tool calls have been appended behind the client's messages.
C28_Witness ==
  /\ Len(conversationMessages) >= 1 + Len(ClientMessages) + 4
  /\ RoleAt(1) = "system"
  /\ RoleAt(Len(conversationMessages)) = "tool"
  /\ chatCalls >= 2

(***************************************************************************)
(* The MCP client with its callers and its server processes                *)
(* (src/lib/mcp-client.ts)                                                 *)
(***************************************************************************)
\* listTools and callTool are invoked at most MaxInvocations times.
MaxInvocations == 2

\* spawn() is called at most MaxSpawns times.
MaxSpawns == 2

\* The longest chunk of a data event that is not the whole output
ChunkSize == 12

ToolsMethods == {"tools/list", "tools/call"}

\* What has been written to stdin, which promises of sendRequest have
\* settled and how, and the text the data events have delivered
McpLog(written, settled, delivered, invocations) ==
  [fn |-> "MCPClient", written |-> written, settled |-> settled, delivered |-> delivered,
   invocations |-> invocations]

McpInit ==
  /\ NoRequest
  /\ env = Envs[1]
  /\ disk = DiskStates[1]
  /\ cache = Caches(JNull, JNull, JNull)
  /\ applied = McpLog(<<>>, EmptyBag, <<>>, 0)

\* One line of the server: {"id":<id>,"result":{}} or
\* {"id":<id>,"error":{"message":"failed"}}
ResponseLine(id, kind) ==
  <<"{">> \o Q("id") \o <<":", ToString(id), ",">> \o
  (IF kind = "result" THEN Q("result") \o <<":", "{", "}">>
   ELSE Q("error") \o <<":", "{">> \o Q("message") \o <<":">> \o Q("failed") \o <<"}">>) \o
  <<"}", "\n">>

\* Lines of the server that are no responses: a log line, null, an empty line
OtherLines == <<"ready", "\n", "null", "\n", "\n">>

\* The complete lines in a text
LineCount(s) == Len(Split(s)) - 1

mcpFrame == <<handlerVars, now, memoryStore, env, disk, cache>>

\* listTools() or callTool() is invoked and runs to its first await.
Invoke ==
  /\ applied.invocations < MaxInvocations
  /\ client.process = 0 => server.spawned < MaxSpawns
  /\ \E method \in ToolsMethods :
       LET r == invoke(client, method, server.spawned + 1) IN
       /\ client' = r.client
       /\ suspended' = suspended (+) SetToBag(r.waiting)
       /\ applied' = [applied EXCEPT !.written = @ \o r.written, !.invocations = @ + 1]
  /\ server' = IF client.process = 0
               THEN [server EXCEPT !.spawned = @ + 1, !.running = @ \cup {server.spawned + 1}]
               ELSE server
  /\ UNCHANGED mcpFrame

\* A running server answers a request it has read: with a result or an
\* error, or with the one after the other.
ServerResponds ==
  /\ LineCount(server.stdout) < 2
  /\ \E i \in 1..Len(applied.written), kind \in {"result", "error"} :
       LET w == applied.written[i] IN
       /\ w.process \in server.running
       /\ <<w.id, kind>> \notin server.answered
       /\ server' = [server EXCEPT !.stdout = @ \o ResponseLine(w.id, kind),
                                   !.answered = @ \cup {<<w.id, kind>>}]
  /\ UNCHANGED <<mcpFrame, client, suspended, applied>>

\* A running server writes the lines that are no responses, once.
ServerLogs ==
  /\ server.running # {}
  /\ LineCount(server.stdout) < 2
  /\ <<0, "log">> \notin server.answered
  /\ server' = [server EXCEPT !.stdout = @ \o OtherLines, !.answered = @ \cup {<<0, "log">>}]
  /\ UNCHANGED <<mcpFrame, client, suspended, applied>>

\* The promises the lines seen have settled, in order
SettledBy(seen) ==
  LET hits == SelectSeq(seen, LAMBDA l : l.pending) IN
  [i \in 1..Len(hits) |-> [id |-> hits[i].id, how |-> hits[i].how]]

RECURSIVE BagOf(_)
\* The elements of a sequence as a bag
BagOf(seq) == IF seq = <<>> THEN EmptyBag ELSE SetToBag({Head(seq)}) (+) BagOf(Tail(seq))

\* The promises settled and the activations awaiting them have run; chunk
\* is the text a data event has delivered before.
Settled(c, settled, chunk) ==
  LET r == afterAwaits(c, BagToSet(suspended), settled, <<>>) IN
  /\ client' = r.client
  /\ suspended' = SetToBag(r.waiting)
  /\ applied' = [applied EXCEPT !.written = @ \o r.written, !.settled = @ (+) BagOf(settled),
                                !.delivered = @ \o chunk]

\* stdout.on("data"): a chunk of the output arrives, is added to the buffer
\* and processBuffer() runs; then the activations it has woken run.
Data ==
  /\ server.stdout # <<>>
  /\ \E k \in {Min(ChunkSize, Len(server.stdout)), Len(server.stdout)} :
       LET chunk == SubSeq(server.stdout, 1, k)
           done == processBuffer([client EXCEPT !.buffer = @ \o chunk]) IN
       /\ server' = [server EXCEPT !.stdout = SubSeq(@, k + 1, Len(@))]
       /\ Settled(done.client, SettledBy(done.seen), chunk)
  /\ UNCHANGED mcpFrame

\* The timer of a pending request fires.
Timeout ==
  /\ \E id \in client.pendingRequests :
       Settled([client EXCEPT !.pendingRequests = @ \ {id}], <<[id |-> id, how |-> "timeout"]>>,
               <<>>)
  /\ UNCHANGED <<mcpFrame, server>>

\* process.on("exit"): a server process has ended.
Exit ==
  /\ \E pid \in server.running : server' = [server EXCEPT !.running = @ \ {pid}]
  /\ client' = [client EXCEPT !.process = 0, !.initialized = FALSE]
  /\ UNCHANGED <<mcpFrame, suspended, applied>>

\* disconnect(): the process is sent the signal; it ends later.
Disconnect ==
  /\ client.process # 0
  /\ client' = [client EXCEPT !.process = 0, !.initialized = FALSE]
  /\ UNCHANGED <<mcpFrame, server, suspended, applied>>

\* The server answers each request at most once.
AnswersOnce ==
  /\ ServerResponds
  /\ \A a, b \in server'.answered : a[1] = b[1] => a = b

\* A data event delivers all the server has written.
DataAtOnce ==
  /\ Data
  /\ server'.stdout = <<>>

McpNext ==
  \/ Invoke
  \/ AnswersOnce
  \/ DataAtOnce
  \/ Timeout
  \/ Exit
  \/ Disconnect

McpSpec == McpInit /\ [][McpNext]_vars

(***************************************************************************)
(* sendRequest and processBuffer of a connected client                     *)
(* (src/lib/mcp-client.ts lines 90-146)                                    *)
(***************************************************************************)
\* connect() has completed: the first server process runs and the
\* handshake is done.
BufferInit ==
  /\ HandlerIdle
  /\ suspended = EmptyBag
  /\ env = Envs[1]
  /\ disk = DiskStates[1]
  /\ cache = Caches(JNull, JNull, JNull)
  /\ applied = McpLog(<<>>, EmptyBag, <<>>, 0)
  /\ client = MCPClient(1, 0, {}, <<>>, TRUE)
  /\ server = [NoServer EXCEPT !.spawned = 1, !.running = {1}]

BufferNext ==
  \/ Invoke
  \/ ServerResponds
  \/ ServerLogs
  \/ Data
  \/ Timeout

BufferSpec == BufferInit /\ [][BufferNext]_vars

BufferLiveSpec == BufferSpec /\ WF_vars(Timeout)

(***************************************************************************)
(* C29: the handshake before the tools requests                            *)
(***************************************************************************)
\* The requests tools/list and tools/call written so far
ToolsRequests ==
  {applied.written[i] : i \in {j \in 1..Len(applied.written) :
                                 applied.written[j].method \in ToolsMethods}}

\* C29: MCPClient never writes tools/list or tools/call before the
\* initialize handshake has completed (initialized = true), also when
\* listTools or callTool is invoked while an earlier connect() is in
\* progress, and at most one server process runs at a time.
C29_HandshakeBeforeTools ==
  /\ \A w \in ToolsRequests : w.initialized
  /\ Cardinality(server.running) <= 1

(***************************************************************************)
(* C30: every request is settled once                                      *)
(***************************************************************************)
\* The ids sendRequest has used
UsedIds == 1..client.requestId

\* How often the promise of request id has been resolved or rejected
SettledCount(id) ==
  CopiesIn([id |-> id, how |-> "result"], applied.settled) +
  CopiesIn([id |-> id, how |-> "error"], applied.settled) +
  CopiesIn([id |-> id, how |-> "timeout"], applied.settled)

\* The complete lines delivered so far
DeliveredLines ==
  LET pieces == Split(applied.delivered) IN SubSeq(pieces, 1, Len(pieces) - 1)

\* The line is a response to request id
RespondsTo(line, id) ==
  /\ JSONParse(line).ok
  /\ StrictEq(Get(JSONParse(line).val, "id"), JNum(<<ToString(id)>>))

\* The delivered lines that respond to request id, in order
ResponsesTo(id) == SelectSeq(DeliveredLines, LAMBDA line : RespondsTo(line, id))

\* What the line settles a request with
KindOf(line) == IF HasKey(JSONParse(line).val, <<"error">>) THEN "error" ELSE "result"

\* Each request written has an id of its own.
FreshIds ==
  /\ Len(applied.written) = client.requestId
  /\ \A i \in 1..Len(applied.written) : applied.written[i].id = i

\* A request is pending and unsettled, or not pending and settled once; a
\* complete response line leaves it settled, by that line unless the timer
\* was earlier, and no later line settles it again.
SettledOnce ==
  \A id \in UsedIds :
    /\ id \in client.pendingRequests => SettledCount(id) = 0 /\ ResponsesTo(id) = <<>>
    /\ id \notin client.pendingRequests =>
         /\ SettledCount(id) = 1
         /\ \/ CopiesIn([id |-> id, how |-> "timeout"], applied.settled) = 1
            \/ /\ ResponsesTo(id) # <<>>
               /\ CopiesIn([id |-> id, how |-> KindOf(ResponsesTo(id)[1])], applied.settled) = 1

\* C30: every request sent by sendRequest gets a fresh id and is settled
\* exactly once: by the first complete response line with its id (also when
\* the line arrives split over chunks) or by the timeout; once settled its
\* id is not in pendingRequests and later responses with that id are ignored.
C30_SettledExactlyOnce ==
  /\ [](FreshIds /\ SettledOnce)
  /\ \A id \in 1..MaxInvocations :
       (id \in client.pendingRequests) ~> (id \notin client.pendingRequests)

\* Request 1 was resolved by its first response, a second response with the
\* id has been delivered since, and a part of a further line is in the buffer.
C30_Witness ==
  /\ 1 \in UsedIds
  /\ CopiesIn([id |-> 1, how |-> "result"], applied.settled) = 1
  /\ Len(ResponsesTo(1)) = 2
  /\ KindOf(ResponsesTo(1)[2]) = "error"
  /\ client.buffer # <<>>

=============================================================================
